---------------------------- MODULE Spec2Model ----------------------------
(***************************************************************************)
(* AVXECC: (4x1)-way vectorised X25519 (AVX2).                             *)
(*                                                                         *)
(* A __m256i is modelled as a tuple of four 64-bit lanes.  A 64-bit lane   *)
(* is a Word: three digits <<d0, d1, d2>> in radix 2^29 with d0, d1 below  *)
(* 2^29 and d2 below 2^6, value d0 + d1*2^29 + d2*2^58.  All lane          *)
(* arithmetic is exact modulo 2^64.  A field element (__m256i a[9]) is a   *)
(* tuple of nine vectors, limb i of the code at index i+1.                 *)
(***************************************************************************)
EXTENDS Integers, Sequences, FiniteSets, TLC

\* ----------------------------------------------------------------- gfparith.h
NWORDS == 9
BITS29 == 29
MASK29 == 536870911
CONSTC == 1216
CONSTA == 486662
LSWP29 == 536869696

\* ------------------------------------------------------ 64-bit lane arithmetic
R29 == MASK29 + 1
TOP6 == 2 ^ 6
P14 == 2 ^ 14
P15 == 2 ^ 15

Pow2(n) == 2 ^ n

\* a small non-negative integer (below 2^31) as a 64-bit lane
Word(n) == <<n % R29, n \div R29, 0>>

WZERO == <<0, 0, 0>>
WONES == <<MASK29, MASK29, TOP6 - 1>>

IsWord(x) == /\ x[1] \in 0..MASK29
             /\ x[2] \in 0..MASK29
             /\ x[3] \in 0..(TOP6 - 1)

\* x + y modulo 2^64
Add64(x, y) ==
  LET s0 == x[1] + y[1]
      c0 == IF s0 >= R29 THEN 1 ELSE 0
      s1 == x[2] + y[2] + c0
      c1 == IF s1 >= R29 THEN 1 ELSE 0
  IN <<s0 - c0 * R29, s1 - c1 * R29, (x[3] + y[3] + c1) % TOP6>>

\* x - y modulo 2^64
Sub64(x, y) ==
  LET s0 == x[1] - y[1]
      b0 == IF s0 < 0 THEN 1 ELSE 0
      s1 == x[2] - y[2] - b0
      b1 == IF s1 < 0 THEN 1 ELSE 0
  IN <<s0 + b0 * R29, s1 + b1 * R29, (x[3] - y[3] - b1 + TOP6) % TOP6>>

\* (x mod 2^32) * (y mod 2^32): the operands are cut into pieces of 15, 14
\* and 3 bits so that no partial product leaves the host integer range
Mul32(x, y) ==
  LET aL == x[1] % P15
      aM == x[1] \div P15
      aH == x[2] % 8
      bL == y[1] % P15
      bM == y[1] \div P15
      bH == y[2] % 8
      p15 == aL * bM + aM * bL
      p44 == aM * bH + aH * bM
      d0 == aL * bL + (p15 % P14) * P15
      d1 == (d0 \div R29) + (p15 \div P14) + (aL * bH + aH * bL)
              + (aM * bM) * 2 + (p44 % P14) * P15
  IN <<d0 % R29, d1 % R29, ((d1 \div R29) + (p44 \div P14) + aH * bH) % TOP6>>

\* x >> n for n in 0..63
RECURSIVE Shr64(_, _)
Shr64(x, n) ==
  IF n = 0 THEN x
  ELSE IF n >= BITS29 THEN Shr64(<<x[2], x[3], 0>>, n - BITS29)
  ELSE LET lo == Pow2(n)
           hi == Pow2(BITS29 - n)
       IN <<(x[1] \div lo) + (x[2] % lo) * hi,
            (x[2] \div lo) + (x[3] % lo) * hi,
            x[3] \div lo>>

\* (x << n) modulo 2^64 for n in 0..63
RECURSIVE Shl64(_, _)
Shl64(x, n) ==
  IF n = 0 THEN x
  ELSE IF n >= BITS29 THEN Shl64(<<0, x[1], x[2] % TOP6>>, n - BITS29)
  ELSE LET lo == Pow2(n)
           hi == Pow2(BITS29 - n)
       IN <<(x[1] % hi) * lo,
            (x[2] % hi) * lo + (x[1] \div hi),
            ((x[3] * lo) + (x[2] \div hi)) % TOP6>>

\* bitwise operations on digits of w bits
RECURSIVE AndD(_, _, _)
AndD(a, b, w) ==
  IF a = 0 \/ b = 0 THEN 0
  ELSE IF b = Pow2(w) - 1 THEN a
  ELSE IF a = Pow2(w) - 1 THEN b
  ELSE LET h == w \div 2
           m == Pow2(h)
       IN AndD(a % m, b % m, h) + m * AndD(a \div m, b \div m, w - h)

RECURSIVE XorD(_, _, _)
XorD(a, b, w) ==
  IF a = 0 THEN b
  ELSE IF b = 0 THEN a
  ELSE IF w = 1 THEN 0
  ELSE LET h == w \div 2
           m == Pow2(h)
       IN XorD(a % m, b % m, h) + m * XorD(a \div m, b \div m, w - h)

And64(x, y) ==
  IF y = WONES THEN x
  ELSE IF x = WONES THEN y
  ELSE <<AndD(x[1], y[1], BITS29), AndD(x[2], y[2], BITS29), AndD(x[3], y[3], 6)>>

Xor64(x, y) ==
  <<XorD(x[1], y[1], BITS29), XorD(x[2], y[2], BITS29), XorD(x[3], y[3], 6)>>

Or64(x, y) == Add64(Xor64(x, y), And64(x, y))

\* ------------------------------------------------------------------ intrin.h
Lanes == 1..4

VADD(X, Y) == <<Add64(X[1], Y[1]), Add64(X[2], Y[2]), Add64(X[3], Y[3]), Add64(X[4], Y[4])>>
VSUB(X, Y) == <<Sub64(X[1], Y[1]), Sub64(X[2], Y[2]), Sub64(X[3], Y[3]), Sub64(X[4], Y[4])>>
VMUL(X, Y) == <<Mul32(X[1], Y[1]), Mul32(X[2], Y[2]), Mul32(X[3], Y[3]), Mul32(X[4], Y[4])>>
VMAC(Z, X, Y) == VADD(Z, VMUL(X, Y))
VXOR(X, Y) == <<Xor64(X[1], Y[1]), Xor64(X[2], Y[2]), Xor64(X[3], Y[3]), Xor64(X[4], Y[4])>>
VAND(X, Y) == <<And64(X[1], Y[1]), And64(X[2], Y[2]), And64(X[3], Y[3]), And64(X[4], Y[4])>>
VOR(X, Y) == <<Or64(X[1], Y[1]), Or64(X[2], Y[2]), Or64(X[3], Y[3]), Or64(X[4], Y[4])>>
VSHR(X, n) == <<Shr64(X[1], n), Shr64(X[2], n), Shr64(X[3], n), Shr64(X[4], n)>>
VSHL(X, n) == <<Shl64(X[1], n), Shl64(X[2], n), Shl64(X[3], n), Shl64(X[4], n)>>
\* broadcast of one 64-bit value (given as a Word) to the four lanes
VSET164(w) == <<w, w, w, w>>
\* VSET64(W, X, Y, Z): the last argument is lane 0
VSET64(w3, w2, w1, w0) == <<w0, w1, w2, w3>>
VZERO == VSET164(WZERO)

\* ------------------------------------------------------------------ gfparith.c
VMASK29 == VSET164(Word(MASK29))
VCONSTC == VSET164(Word(CONSTC))
VDLSWP == VSET164(Word(LSWP29 * 2))
VDWRDP == VSET164(Word(MASK29 * 2))

\* the limbs of r and a exchanged in the lanes selected by mask: <<r, a>>
cswap_masked(r, a, mask) ==
  << <<VXOR(r[1], VAND(VXOR(r[1], a[1]), mask)), VXOR(r[2], VAND(VXOR(r[2], a[2]), mask)),
       VXOR(r[3], VAND(VXOR(r[3], a[3]), mask)), VXOR(r[4], VAND(VXOR(r[4], a[4]), mask)),
       VXOR(r[5], VAND(VXOR(r[5], a[5]), mask)), VXOR(r[6], VAND(VXOR(r[6], a[6]), mask)),
       VXOR(r[7], VAND(VXOR(r[7], a[7]), mask)), VXOR(r[8], VAND(VXOR(r[8], a[8]), mask)),
       VXOR(r[9], VAND(VXOR(r[9], a[9]), mask))>>,
     <<VXOR(a[1], VAND(VXOR(r[1], a[1]), mask)), VXOR(a[2], VAND(VXOR(r[2], a[2]), mask)),
       VXOR(a[3], VAND(VXOR(r[3], a[3]), mask)), VXOR(a[4], VAND(VXOR(r[4], a[4]), mask)),
       VXOR(a[5], VAND(VXOR(r[5], a[5]), mask)), VXOR(a[6], VAND(VXOR(r[6], a[6]), mask)),
       VXOR(a[7], VAND(VXOR(r[7], a[7]), mask)), VXOR(a[8], VAND(VXOR(r[8], a[8]), mask)),
       VXOR(a[9], VAND(VXOR(r[9], a[9]), mask))>> >>

\* conditional swap in which the flag of lane 0 decides for all four lanes
cswap_lane0(r, a, b) == cswap_masked(r, a, VSUB(VZERO, VSET164(b[1])))

\* conditional swap with mask = 0 - b: returns <<r, a>>
mpi29_cswap_avx2(r, a, b) == cswap_masked(r, a, VSUB(VZERO, b))

\* r = a + b, no reduction
mpi29_gfp_add_avx2(a, b) ==
  <<VADD(a[1], b[1]), VADD(a[2], b[2]), VADD(a[3], b[3]),
    VADD(a[4], b[4]), VADD(a[5], b[5]), VADD(a[6], b[6]),
    VADD(a[7], b[7]), VADD(a[8], b[8]), VADD(a[9], b[9])>>

\* the subtraction with 2 * MASK29 added to limb 0 as to the other limbs
sub_bias_ones(a, b) ==
  <<VADD(VDWRDP, VSUB(a[1], b[1])), VADD(VDWRDP, VSUB(a[2], b[2])),
    VADD(VDWRDP, VSUB(a[3], b[3])), VADD(VDWRDP, VSUB(a[4], b[4])),
    VADD(VDWRDP, VSUB(a[5], b[5])), VADD(VDWRDP, VSUB(a[6], b[6])),
    VADD(VDWRDP, VSUB(a[7], b[7])), VADD(VDWRDP, VSUB(a[8], b[8])),
    VADD(VDWRDP, VSUB(a[9], b[9]))>>

\* r = a - b limb by limb, without the 2p
sub_no_bias(a, b) ==
  <<VSUB(a[1], b[1]), VSUB(a[2], b[2]), VSUB(a[3], b[3]), VSUB(a[4], b[4]), VSUB(a[5], b[5]),
    VSUB(a[6], b[6]), VSUB(a[7], b[7]), VSUB(a[8], b[8]), VSUB(a[9], b[9])>>

\* r = 2p + a - b, no carry propagation and no reduction
mpi29_gfp_sub_avx2(a, b) ==
  <<VADD(VDLSWP, VSUB(a[1], b[1])), VADD(VDWRDP, VSUB(a[2], b[2])),
    VADD(VDWRDP, VSUB(a[3], b[3])), VADD(VDWRDP, VSUB(a[4], b[4])),
    VADD(VDWRDP, VSUB(a[5], b[5])), VADD(VDWRDP, VSUB(a[6], b[6])),
    VADD(VDWRDP, VSUB(a[7], b[7])), VADD(VDWRDP, VSUB(a[8], b[8])),
    VADD(VDWRDP, VSUB(a[9], b[9]))>>

\* carry propagation loop: r[i+1] += r[i] >> 29, r[i] &= MASK29 for limbs
\* i..7 (the tuple index is the limb index plus one)
\* st = <<i, r>>
RECURSIVE CarryProp(_)
CarryProp(st) ==
  IF st[1] = NWORDS THEN st[2]
  ELSE CarryProp(<<st[1] + 1,
                   [st[2] EXCEPT ![st[1] + 1] = VADD(st[2][st[1] + 1], VSHR(st[2][st[1]], BITS29)),
                                 ![st[1]] = VAND(st[2][st[1]], VMASK29)]>>)

\* sbc_final without the cut of limb 8 to 29 bits
sbc_final_uncut(r) ==
  [r EXCEPT ![1] = VADD(r[1], VMUL(VSHR(r[9], BITS29), VCONSTC))]

\* the final step of sbc: the carry out of limb 8 times CONSTC goes to limb 0
sbc_final(r) ==
  [r EXCEPT ![1] = VADD(r[1], VMUL(VSHR(r[9], BITS29), VCONSTC)),
            ![9] = VAND(r[9], VMASK29)]

\* r = 2p + a - b with carry propagation and the fold of the top carry
mpi29_gfp_sbc_avx2(a, b) == sbc_final(CarryProp(<<1, mpi29_gfp_sub_avx2(a, b)>>))

\* accu + a_i * b_(k-i) for i = lo..hi, added in this order (limbs from 0);
\* st = <<i, accu>>
RECURSIVE MacColRec(_, _, _, _, _)
MacColRec(st, a, b, hi, k) ==
  IF st[1] > hi THEN st[2]
  ELSE MacColRec(<<st[1] + 1, VMAC(st[2], a[st[1] + 1], b[k - st[1] + 1])>>, a, b, hi, k)

MacCol(accu, a, b, lo, hi, k) == MacColRec(<<lo, accu>>, a, b, hi, k)

\* 1st loop of the product scanning: the column sums t0..t8, no carries
mul_low(a, b) ==
  <<VMUL(a[1], b[1]),
    MacCol(VMUL(a[1], b[2]), a, b, 1, 1, 1),
    MacCol(VMUL(a[1], b[3]), a, b, 1, 2, 2),
    MacCol(VMUL(a[1], b[4]), a, b, 1, 3, 3),
    MacCol(VMUL(a[1], b[5]), a, b, 1, 4, 4),
    MacCol(VMUL(a[1], b[6]), a, b, 1, 5, 5),
    MacCol(VMUL(a[1], b[7]), a, b, 1, 6, 6),
    MacCol(VMUL(a[1], b[8]), a, b, 1, 7, 7),
    MacCol(VMUL(a[1], b[9]), a, b, 1, 8, 8)>>

\* 2nd loop: columns k = 9..16 on top of the carry accu; each gives a 29-bit
\* limb r(k-9), and what is left above column 16 is r8
\* st = <<k, accu, r>>
RECURSIVE mul_high(_, _, _)
mul_high(a, b, st) ==
  IF st[1] > 2 * NWORDS - 2 THEN Append(st[3], st[2])
  ELSE LET accu == MacCol(st[2], a, b, st[1] - 8, 8, st[1])
       IN mul_high(a, b, <<st[1] + 1, VSHR(accu, BITS29), Append(st[3], VAND(accu, VMASK29))>>)

\* modulo-p reduction and conversion to 29-bit limbs: limb i is
\* t[i] + carry + CONSTC * r[i]; the last carry times CONSTC is added to limb 0
\* st = <<i, carry, out>>
RECURSIVE mul_reduce(_, _, _)
mul_reduce(t, r, st) ==
  IF st[1] > NWORDS THEN [st[3] EXCEPT ![1] = VMAC(st[3][1], st[2], VCONSTC)]
  ELSE LET accu == VMAC(VADD(t[st[1]], st[2]), r[st[1]], VCONSTC)
       IN mul_reduce(t, r, <<st[1] + 1, VSHR(accu, BITS29), Append(st[3], VAND(accu, VMASK29))>>)

\* mul_finish with t8 left as it is, so that its carry is counted twice
mul_finish_uncut(a, b, t) ==
  mul_reduce(t, mul_high(a, b, <<NWORDS, VSHR(t[9], BITS29), <<>> >>), <<1, VZERO, <<>> >>)

\* the part of the multiplication after the column sums t0..t8: t8 is cut to
\* 29 bits and its carry starts the 2nd loop
mul_finish(a, b, t) ==
  mul_reduce([t EXCEPT ![9] = VAND(t[9], VMASK29)],
             mul_high(a, b, <<NWORDS, VSHR(t[9], BITS29), <<>> >>), <<1, VZERO, <<>> >>)

\* r = a * b mod p: product scanning, then the fold of the high half by CONSTC
mpi29_gfp_mul_avx2(a, b) == mul_finish(a, b, mul_low(a, b))

\* limbs r0..r8 of b * a with carries, followed by the carry out of limb 8
\* st = <<i, carry, r>>
RECURSIVE mul29_loop(_, _, _)
mul29_loop(a, vb, st) ==
  IF st[1] > NWORDS THEN Append(st[3], st[2])
  ELSE LET accu == VMAC(st[2], a[st[1]], vb)
       IN mul29_loop(a, vb, <<st[1] + 1, VSHR(accu, BITS29), Append(st[3], VAND(accu, VMASK29))>>)

\* mul29_fold with the whole carry times CONSTC added to limb 0
mul29_fold_limb0(r, accu) ==
  <<VADD(r[1], accu), r[2], r[3], r[4], r[5], r[6], r[7], r[8], r[9]>>

\* the carry times CONSTC is split over limbs 0 and 1
mul29_fold(r, accu) ==
  <<VADD(r[1], VAND(accu, VMASK29)), VADD(r[2], VSHR(accu, BITS29)),
    r[3], r[4], r[5], r[6], r[7], r[8], r[9]>>

mul29_finish(u) == mul29_fold(u, VMUL(VCONSTC, u[10]))

\* the multiplication by the constant b + 1
mul29_next(a, b) == mul29_finish(mul29_loop(a, VSET164(Word(b + 1)), <<1, VZERO, <<>> >>))

\* r = b * a mod p for a 29-bit integer b
mpi29_gfp_mul29_avx2(a, b) == mul29_finish(mul29_loop(a, VSET164(Word(b)), <<1, VZERO, <<>> >>))

\* accu plus the sum of a_i * a_(k-i) over i <= k - i, each product once
SqrColSingle(accu, a, k) == MacCol(accu, a, a, IF k > 8 THEN k - 8 ELSE 0, k \div 2, k)

\* accu plus column k of the square: twice the sum of a_i * a_(k-i) over
\* i < k - i, plus a_(k/2)^2 when k is even
SqrCol(accu, a, k) ==
  IF k = 0 \/ k = 2 * NWORDS - 2 THEN VMAC(accu, a[(k \div 2) + 1], a[(k \div 2) + 1])
  ELSE IF k % 2 = 1
  THEN VADD(accu, VSHL(MacCol(VMUL(a[(IF k > 8 THEN k - 8 ELSE 0) + 1],
                                   a[k - (IF k > 8 THEN k - 8 ELSE 0) + 1]),
                              a, a, (IF k > 8 THEN k - 8 ELSE 0) + 1, (k - 1) \div 2, k), 1))
  ELSE VMAC(VADD(accu, VSHL(MacCol(VMUL(a[(IF k > 8 THEN k - 8 ELSE 0) + 1],
                                        a[k - (IF k > 8 THEN k - 8 ELSE 0) + 1]),
                                   a, a, (IF k > 8 THEN k - 8 ELSE 0) + 1, (k - 1) \div 2, k), 1)),
            a[(k \div 2) + 1], a[(k \div 2) + 1])

\* 1st loop of the product-scanning squaring
sqr_low(a) ==
  <<SqrCol(VZERO, a, 0), SqrCol(VZERO, a, 1), SqrCol(VZERO, a, 2),
    SqrCol(VZERO, a, 3), SqrCol(VZERO, a, 4), SqrCol(VZERO, a, 5),
    SqrCol(VZERO, a, 6), SqrCol(VZERO, a, 7), SqrCol(VZERO, a, 8)>>

\* 2nd loop of the product-scanning squaring
\* st = <<k, accu, r>>
RECURSIVE sqr_high(_, _)
sqr_high(a, st) ==
  IF st[1] > 2 * NWORDS - 2 THEN Append(st[3], st[2])
  ELSE LET accu == SqrCol(st[2], a, st[1])
       IN sqr_high(a, <<st[1] + 1, VSHR(accu, BITS29), Append(st[3], VAND(accu, VMASK29))>>)

sqr_finish(a, t) ==
  mul_reduce([t EXCEPT ![9] = VAND(t[9], VMASK29)],
             sqr_high(a, <<NWORDS, VSHR(t[9], BITS29), <<>> >>), <<1, VZERO, <<>> >>)

\* r = a^2 mod p
mpi29_gfp_sqr_avx2(a) == sqr_finish(a, sqr_low(a))

mpi29_copy_avx2(a) ==
  <<a[1], a[2], a[3], a[4], a[5], a[6], a[7], a[8], a[9]>>

\* --------------------------------------------------------------------- ecdh.c
VMASK23 == VSET164(Word(2 ^ 23 - 1))
V19 == VSET164(Word(19))

\* the bits of limb 8 above bit 23 are cut off and, times 19, added to limb 0
fold255(a) ==
  [a EXCEPT ![1] = VADD(a[1], VMUL(VSHR(a[9], 23), V19)),
            ![9] = VAND(a[9], VMASK23)]

\* one fold followed by the carry propagation through the nine limbs
final_modp_pass(a) == CarryProp(<<1, fold255(a)>>)

\* the fold executed once only
final_modp_once(a) == final_modp_pass(a)

\* the fold is executed twice
final_modp(a) == final_modp_pass(final_modp_pass(a))

\* ------------------------------------------- sequences of field operations
\* A function body that is a sequence of calls of field operations is kept as
\* a list of instructions <<op, dst, src1, src2>> over named field elements
\* (for mul29 src2 is the constant, for sqr and copy it is not used).
FieldOp(op, a, b) ==
  CASE op = "add" -> mpi29_gfp_add_avx2(a, b)
    [] op = "sub" -> mpi29_gfp_sub_avx2(a, b)
    [] op = "sbc" -> mpi29_gfp_sbc_avx2(a, b)
    [] op = "mul" -> mpi29_gfp_mul_avx2(a, b)
    [] op = "sqr" -> mpi29_gfp_sqr_avx2(a)
    [] op = "mul29" -> mpi29_gfp_mul29_avx2(a, b)
    [] op = "copy" -> mpi29_copy_avx2(a)

\* one call: the destination is overwritten, the other elements are kept
Exec(regs, ins) ==
  [regs EXCEPT ![ins[2]] =
     FieldOp(ins[1], regs[ins[3]], IF ins[1] = "mul29" THEN ins[4] ELSE regs[ins[4]])]

\* the calls of prog from the st[1]-th on, in order; st = <<i, regs>>
RECURSIVE RunFrom(_, _)
RunFrom(st, prog) ==
  IF st[1] > Len(prog) THEN st[2]
  ELSE RunFrom(<<st[1] + 1, Exec(st[2], prog[st[1]])>>, prog)

Run(regs, prog) == RunFrom(<<1, regs>>, prog)

\* n times the same call
Rep(ins, n) == [k \in 1..n |-> ins]

\* mpi29_gfp_inv_avx2 with one squaring less in the last block
InvProgShort ==
  <<<<"sqr", "t0", "a", "a">>, <<"sqr", "t1", "t0", "t0">>, <<"sqr", "t1", "t1", "t1">>,
    <<"mul", "t1", "a", "t1">>, <<"mul", "t0", "t0", "t1">>, <<"sqr", "t2", "t0", "t0">>,
    <<"mul", "t1", "t1", "t2">>, <<"sqr", "t2", "t1", "t1">>>>
  \o Rep(<<"sqr", "t2", "t2", "t2">>, 4) \o <<<<"mul", "t1", "t2", "t1">>, <<"sqr", "t2", "t1", "t1">>>>
  \o Rep(<<"sqr", "t2", "t2", "t2">>, 9) \o <<<<"mul", "t2", "t2", "t1">>, <<"sqr", "t3", "t2", "t2">>>>
  \o Rep(<<"sqr", "t3", "t3", "t3">>, 19) \o <<<<"mul", "t2", "t3", "t2">>, <<"sqr", "t2", "t2", "t2">>>>
  \o Rep(<<"sqr", "t2", "t2", "t2">>, 9) \o <<<<"mul", "t1", "t2", "t1">>, <<"sqr", "t2", "t1", "t1">>>>
  \o Rep(<<"sqr", "t2", "t2", "t2">>, 49) \o <<<<"mul", "t2", "t2", "t1">>, <<"sqr", "t3", "t2", "t2">>>>
  \o Rep(<<"sqr", "t3", "t3", "t3">>, 99) \o <<<<"mul", "t2", "t3", "t2">>, <<"sqr", "t2", "t2", "t2">>>>
  \o Rep(<<"sqr", "t2", "t2", "t2">>, 49) \o <<<<"mul", "t1", "t2", "t1">>, <<"sqr", "t1", "t1", "t1">>>>
  \o Rep(<<"sqr", "t1", "t1", "t1">>, 3) \o <<<<"mul", "r", "t1", "t0">>>>

\* mpi29_gfp_inv_avx2: r = a^(p-2), the calls in program order
InvProg ==
  <<<<"sqr", "t0", "a", "a">>, <<"sqr", "t1", "t0", "t0">>, <<"sqr", "t1", "t1", "t1">>,
    <<"mul", "t1", "a", "t1">>, <<"mul", "t0", "t0", "t1">>, <<"sqr", "t2", "t0", "t0">>,
    <<"mul", "t1", "t1", "t2">>, <<"sqr", "t2", "t1", "t1">>>>
  \o Rep(<<"sqr", "t2", "t2", "t2">>, 4) \o <<<<"mul", "t1", "t2", "t1">>, <<"sqr", "t2", "t1", "t1">>>>
  \o Rep(<<"sqr", "t2", "t2", "t2">>, 9) \o <<<<"mul", "t2", "t2", "t1">>, <<"sqr", "t3", "t2", "t2">>>>
  \o Rep(<<"sqr", "t3", "t3", "t3">>, 19) \o <<<<"mul", "t2", "t3", "t2">>, <<"sqr", "t2", "t2", "t2">>>>
  \o Rep(<<"sqr", "t2", "t2", "t2">>, 9) \o <<<<"mul", "t1", "t2", "t1">>, <<"sqr", "t2", "t1", "t1">>>>
  \o Rep(<<"sqr", "t2", "t2", "t2">>, 49) \o <<<<"mul", "t2", "t2", "t1">>, <<"sqr", "t3", "t2", "t2">>>>
  \o Rep(<<"sqr", "t3", "t3", "t3">>, 99) \o <<<<"mul", "t2", "t3", "t2">>, <<"sqr", "t2", "t2", "t2">>>>
  \o Rep(<<"sqr", "t2", "t2", "t2">>, 49) \o <<<<"mul", "t1", "t2", "t1">>, <<"sqr", "t1", "t1", "t1">>>>
  \o Rep(<<"sqr", "t1", "t1", "t1">>, 4) \o <<<<"mul", "r", "t1", "t0">>>>

\* the field element 0, and the locals of the inversion on entry with input
\* a: t0..t3 and r are written before they are read
FZero == <<VZERO, VZERO, VZERO, VZERO, VZERO, VZERO, VZERO, VZERO, VZERO>>

InvEntry(a) == [a |-> a, t0 |-> FZero, t1 |-> FZero, t2 |-> FZero, t3 |-> FZero, r |-> FZero]

\* -------------------------------------------------------- intrin.h, continued
\* the 32-bit halves of a 64-bit lane, each as a Word, and a lane from its halves
Lo32(w) == <<w[1], w[2] % 8, 0>>

Hi32(w) == Shr64(w, 32)

Join32(lo, hi) == Add64(lo, Shl64(hi, 32))

\* the source index (from 1) that bits 2j, 2j+1 of an immediate select
ImmSel(imm, j) == ((imm \div (4 ^ j)) % 4) + 1

\* _mm256_shuffle_epi32: in each 128-bit half, the 32-bit element j of the
\* result is the element (imm >> 2j) & 3 of the same half of the source
Elems32(w0, w1) == <<Lo32(w0), Hi32(w0), Lo32(w1), Hi32(w1)>>

Shuf128(E, imm) ==
  <<Join32(E[ImmSel(imm, 0)], E[ImmSel(imm, 1)]), Join32(E[ImmSel(imm, 2)], E[ImmSel(imm, 3)])>>

VSHUF32(X, imm) == Shuf128(Elems32(X[1], X[2]), imm) \o Shuf128(Elems32(X[3], X[4]), imm)

\* _mm256_permute4x64_epi64: lane j of the result is lane (imm >> 2j) & 3
VPERM64(X, imm) == <<X[ImmSel(imm, 0)], X[ImmSel(imm, 1)], X[ImmSel(imm, 2)], X[ImmSel(imm, 3)]>>

\* _mm256_broadcastq_epi64 of the 64-bit value loaded from the table
VBROAD64(w) == <<w, w, w, w>>

\* _mm256_extract_epi32: the 32-bit element e (0..7) of the vector
VEXTR32(X, e) == IF e % 2 = 0 THEN Lo32(X[(e \div 2) + 1]) ELSE Hi32(X[(e \div 2) + 1])

\* _mm256_abs_epi8: the absolute value of each of the eight signed bytes
ByteOf(w, k) == Shr64(w, 8 * k)[1] % 256

Abs8(b) == IF b >= 128 THEN 256 - b ELSE b

RECURSIVE AbsBytes(_, _)
AbsBytes(st, w) ==   \* st = <<k, bytes below k done>>
  IF st[1] = 8 THEN st[2]
  ELSE AbsBytes(<<st[1] + 1, Add64(st[2], Shl64(Word(Abs8(ByteOf(w, st[1]))), 8 * st[1]))>>, w)

VABS8(X) ==
  <<AbsBytes(<<0, WZERO>>, X[1]), AbsBytes(<<0, WZERO>>, X[2]),
    AbsBytes(<<0, WZERO>>, X[3]), AbsBytes(<<0, WZERO>>, X[4])>>

\* ------------------------------------------------- intrin.h: serialisation
\* a 32-bit word cut to its low 29 bits
U29(x) == And64(x, <<MASK29, 0, 0>>)

\* the low 31 bits of x
U31(x) == And64(x, <<MASK29, 3, 0>>)

\* the low 32 bits of x: the result of an operation on uint32_t
U32(x) == And64(x, <<MASK29, 7, 0>>)

\* x >> n on uint32_t; a count of 32 is undefined in C: the build either
\* takes the count modulo 32 (ub = "masked") or gives 0 (ub = "zero")
Shr32(x, n, ub) ==
  IF n < 32 THEN Shr64(x, n) ELSE IF ub = "masked" THEN Shr64(x, n % 32) ELSE WZERO

\* r[i..n-1] = 0
RECURSIVE ZeroFill(_, _)
ZeroFill(r, n) == IF Len(r) >= n THEN r ELSE ZeroFill(Append(r, WZERO), n)

\* mpi29_conv_32to29, the end of an iteration of the while loop:
\* st = <<i, j, shr_pos, shl_pos, temp, r>>, shr and shl are the positions
\* after -= 3 and += 3, ri is r[i]
Conv32Next(a, st, shr, shl, ri) ==
  <<st[1] + 1,
    IF shr > 0 /\ shl < 32 THEN st[2] + 1 ELSE st[2],
    IF shr <= 0 THEN shr + 32 ELSE shr,
    IF shl >= 32 THEN shl - 32 ELSE shl,
    IF (IF shr <= 0 THEN shr + 32 ELSE shr) = 32 THEN WZERO
    ELSE IF shr > 0 /\ shl < 32 THEN a[st[2] + 1] ELSE st[5],
    Append(st[6], ri)>>

\* word = (temp >> shr_pos) | (a[j] << shl_pos); r[i] = word & MASK29
Conv32Word(a, st, ub) ==
  U29(Or64(Shr32(st[5], st[3], ub), U32(Shl64(a[st[2] + 1], st[4]))))

RECURSIVE Conv32Rec(_, _, _, _, _)
Conv32Rec(a, rlen, alen, ub, st) ==
  IF st[1] < rlen /\ st[2] < alen
  THEN Conv32Rec(a, rlen, alen, ub, Conv32Next(a, st, st[3] - 3, st[4] + 3, Conv32Word(a, st, ub)))
  ELSE IF st[1] < rlen
  THEN ZeroFill(Append(st[6], U29(Shr32(st[5], st[3], ub))), rlen)
  ELSE st[6]

mpi29_conv_32to29(a, rlen, alen, ub) ==
  Conv32Rec(a, rlen, alen, ub, <<0, 0, 32, 0, WZERO, <<>> >>)

\* mpi29_conv_29to32, one iteration of the while loop:
\* st = <<i, j, bits_in_word, word, r>>, w is word | (a[j] << bits_in_word)
Conv29Next(a, st, w) ==
  IF st[3] + 29 >= 32
  THEN <<st[1] + 1, st[2] + 1,
         IF 32 - st[3] > 0 THEN 29 - (32 - st[3]) ELSE 0,
         IF 32 - st[3] > 0 THEN Shr64(a[st[2] + 1], 32 - st[3]) ELSE WZERO,
         Append(st[5], w)>>
  ELSE <<st[1], st[2] + 1, st[3] + 29, w, st[5]>>

RECURSIVE Conv29Rec(_, _, _, _)
Conv29Rec(a, rlen, alen, st) ==
  IF st[1] < rlen /\ st[2] < alen
  THEN Conv29Rec(a, rlen, alen, Conv29Next(a, st, U32(Or64(st[4], U32(Shl64(a[st[2] + 1], st[3]))))))
  ELSE IF st[1] < rlen
  THEN ZeroFill(Append(st[5], st[4]), rlen)
  ELSE st[5]

mpi29_conv_29to32(a, rlen, alen) == Conv29Rec(a, rlen, alen, <<0, 0, 0, WZERO, <<>> >>)

\* ------------------------------------------------------------------ moncurve.c
FOne == <<VSET164(Word(1)), VZERO, VZERO, VZERO, VZERO, VZERO, VZERO, VZERO, VZERO>>

\* the ladder step with the carry-propagating sbc for each of its subtractions
LadderProgSbc ==
  <<<<"add", "py", "px", "pz">>,
    <<"sbc", "px", "px", "pz">>,
    <<"add", "qy", "qx", "qz">>,
    <<"sbc", "qx", "qx", "qz">>,
    <<"sqr", "pz", "py", "py">>,
    <<"mul", "qz", "qy", "px">>,
    <<"mul", "qy", "qx", "py">>,
    <<"sqr", "py", "px", "px">>,
    <<"mul", "px", "pz", "py">>,
    <<"sbc", "py", "pz", "py">>,
    <<"mul29", "qx", "py", (CONSTA - 2) \div 4>>,
    <<"add", "qx", "qx", "pz">>,
    <<"mul", "pz", "qx", "py">>,
    <<"add", "py", "qy", "qz">>,
    <<"sqr", "qx", "py", "py">>,
    <<"sbc", "py", "qy", "qz">>,
    <<"sqr", "qy", "py", "py">>,
    <<"mul", "qz", "qy", "xd">>>>

\* mon_ladder_step_avx2(p, q, xd): tmp1 is p->y, tmp2 is q->y
LadderProg ==
  <<<<"add", "py", "px", "pz">>,
    <<"sbc", "px", "px", "pz">>,
    <<"add", "qy", "qx", "qz">>,
    <<"sub", "qx", "qx", "qz">>,
    <<"sqr", "pz", "py", "py">>,
    <<"mul", "qz", "qy", "px">>,
    <<"mul", "qy", "qx", "py">>,
    <<"sqr", "py", "px", "px">>,
    <<"mul", "px", "pz", "py">>,
    <<"sub", "py", "pz", "py">>,
    <<"mul29", "qx", "py", (CONSTA - 2) \div 4>>,
    <<"add", "qx", "qx", "pz">>,
    <<"mul", "pz", "qx", "py">>,
    <<"add", "py", "qy", "qz">>,
    <<"sqr", "qx", "py", "py">>,
    <<"sbc", "py", "qy", "qz">>,
    <<"sqr", "qy", "py", "py">>,
    <<"mul", "qz", "qy", "xd">>>>

mon_ladder_step_avx2(regs) == Run(regs, LadderProg)

\* the swap flag of mon_cswap_point_avx2, without the mask (never swaps)
CBitNone(b) == VAND(b, VZERO)

\* the swap flag of mon_cswap_point_avx2
CBit(b) == VAND(b, VSET164(Word(1)))

\* mon_cswap_point_avx2 on (p, q) = ((px, pz), (qx, qz)) with flag cbit
cswap_point(regs, sx, sz) ==
  [regs EXCEPT !.px = sx[1], !.qx = sx[2], !.pz = sz[1], !.qz = sz[2]]

mon_cswap_point_avx2(regs, b) ==
  cswap_point(regs, mpi29_cswap_avx2(regs.px, regs.qx, CBit(b)),
              mpi29_cswap_avx2(regs.pz, regs.qz, CBit(b)))

\* the pruning of the scalar: kp[0] &= 0xFFFFFFF8, kp[7] = (kp[7] & 0x7FFFFFFF) | 0x40000000
PruneT0 == VSET164(<<MASK29 - 7, 7, 0>>)
PruneT1 == VSET164(<<MASK29, 3, 0>>)
PruneT2 == VSET164(<<0, 2, 0>>)

\* the pruning without the OR that sets bit 254
prune_clear(k) ==
  [k EXCEPT ![1] = VAND(k[1], PruneT0), ![8] = VAND(k[8], PruneT1)]

prune(k) ==
  [k EXCEPT ![1] = VAND(k[1], PruneT0), ![8] = VOR(VAND(k[8], PruneT1), PruneT2)]

\* b = kp[i>>5] >> (i&31)
LadderBit(kp, i) == VSHR(kp[(i \div 32) + 1], i % 32)

\* the ladder entered with the base point u = 9 in place of x
LadderEntryBase(x) ==
  [px |-> FOne, py |-> FZero, pz |-> FZero, qx |-> [FOne EXCEPT ![1] = VSET164(Word(9))],
   qy |-> FZero, qz |-> FOne, xd |-> [FOne EXCEPT ![1] = VSET164(Word(9))]]

\* the ladder on entry: p1 = (1 : 0), p2 = (x : 1); the y slots are written
\* by the first step before they are read
LadderEntry(x) ==
  [px |-> FOne, py |-> FZero, pz |-> FZero, qx |-> x, qy |-> FZero, qz |-> FOne, xd |-> x]

\* the swap flag taken to be the scalar bit alone
SwapFlagBit(s, b) == b

\* the swap flag of an iteration: s = s ^ b
SwapFlag(s, b) == VXOR(s, b)

\* one iteration of the main loop for bit i with the previous bit s
LadderIter(regs, s, b) == mon_ladder_step_avx2(mon_cswap_point_avx2(regs, SwapFlag(s, b)))

\* ------------------------------------------------------------------ tedcurve.c
\* "1/2" in the field as four 64-bit chunks
one_half == <<<<MASK29 - 8, MASK29, TOP6 - 1>>, WONES, WONES, <<MASK29, MASK29, 15>>>>

\* the addition with h in place of e in its last product
TedAddProgLastH ==
  <<<<"mul", "t", "e", "h">>,
    <<"sub", "e", "y", "x">>,
    <<"add", "h", "y", "x">>,
    <<"mul", "x", "e", "qy">>,
    <<"mul", "y", "h", "qx">>,
    <<"sub", "e", "y", "x">>,
    <<"add", "h", "y", "x">>,
    <<"mul", "x", "t", "qz">>,
    <<"sbc", "t", "z", "x">>,
    <<"add", "x", "z", "x">>,
    <<"mul", "z", "t", "x">>,
    <<"mul", "y", "x", "h">>,
    <<"mul", "x", "h", "t">>>>

\* ted_point_add_avx2(r, p, q) as called with r = p: x, y, z, e, h are the
\* coordinates of r = p, t the local, qx, qy, qz the Duif point
TedAddProg ==
  <<<<"mul", "t", "e", "h">>,
    <<"sub", "e", "y", "x">>,
    <<"add", "h", "y", "x">>,
    <<"mul", "x", "e", "qy">>,
    <<"mul", "y", "h", "qx">>,
    <<"sub", "e", "y", "x">>,
    <<"add", "h", "y", "x">>,
    <<"mul", "x", "t", "qz">>,
    <<"sbc", "t", "z", "x">>,
    <<"add", "x", "z", "x">>,
    <<"mul", "z", "t", "x">>,
    <<"mul", "y", "x", "h">>,
    <<"mul", "x", "e", "t">>>>

\* ted_point_dbl_avx2 with x + y formed first: x^2 is then the square of the sum
TedDblProgSumFirst ==
  <<<<"add", "x", "x", "y">>,
    <<"sqr", "e", "x", "x">>,
    <<"sqr", "h", "y", "y">>,
    <<"sbc", "t", "e", "h">>,
    <<"add", "h", "e", "h">>,
    <<"sqr", "e", "x", "x">>,
    <<"sub", "e", "h", "e">>,
    <<"sqr", "y", "z", "z">>,
    <<"mul29", "y", "y", 2>>,
    <<"add", "y", "t", "y">>,
    <<"mul", "x", "e", "y">>,
    <<"mul", "z", "y", "t">>,
    <<"mul", "y", "t", "h">>>>

\* ted_point_dbl_avx2(r, p) as called with r = p
TedDblProg ==
  <<<<"sqr", "e", "x", "x">>,
    <<"sqr", "h", "y", "y">>,
    <<"sbc", "t", "e", "h">>,
    <<"add", "h", "e", "h">>,
    <<"add", "x", "x", "y">>,
    <<"sqr", "e", "x", "x">>,
    <<"sub", "e", "h", "e">>,
    <<"sqr", "y", "z", "z">>,
    <<"mul29", "y", "y", 2>>,
    <<"add", "y", "t", "y">>,
    <<"mul", "x", "e", "y">>,
    <<"mul", "z", "y", "t">>,
    <<"mul", "y", "t", "h">>>>

\* ted_point_add_avx2(r, p, q) with r and p distinct: rx..rh are the
\* coordinates of r, px..ph those of p
TedAddProgDistinct ==
  <<<<"mul", "t", "pe", "ph">>,
    <<"sub", "re", "py", "px">>,
    <<"add", "rh", "py", "px">>,
    <<"mul", "rx", "re", "qy">>,
    <<"mul", "ry", "rh", "qx">>,
    <<"sub", "re", "ry", "rx">>,
    <<"add", "rh", "ry", "rx">>,
    <<"mul", "rx", "t", "qz">>,
    <<"sbc", "t", "pz", "rx">>,
    <<"add", "rx", "pz", "rx">>,
    <<"mul", "rz", "t", "rx">>,
    <<"mul", "ry", "rx", "rh">>,
    <<"mul", "rx", "re", "t">>>>

\* ted_point_dbl_avx2(r, p) with r and p distinct
TedDblProgDistinct ==
  <<<<"sqr", "re", "px", "px">>,
    <<"sqr", "rh", "py", "py">>,
    <<"sbc", "t", "re", "rh">>,
    <<"add", "rh", "re", "rh">>,
    <<"add", "rx", "px", "py">>,
    <<"sqr", "re", "rx", "rx">>,
    <<"sub", "re", "rh", "re">>,
    <<"sqr", "ry", "pz", "pz">>,
    <<"mul29", "ry", "ry", 2>>,
    <<"add", "ry", "t", "ry">>,
    <<"mul", "rx", "re", "ry">>,
    <<"mul", "rz", "ry", "t">>,
    <<"mul", "ry", "t", "rh">>>>

\* the order in which a field function touches the limbs of its arguments:
\* a[0..8] and b[0..8] are loaded into locals, r[0..8] is stored at the end
FieldAccess(op) ==
  [i \in 1..NWORDS |-> <<"read", "a", i - 1>>]
  \o (IF op \in {"sqr", "mul29"} THEN <<>> ELSE [i \in 1..NWORDS |-> <<"read", "b", i - 1>>])
  \o [i \in 1..NWORDS |-> <<"write", "r", i - 1>>]

ExtOf(regs) == [x |-> regs.x, y |-> regs.y, z |-> regs.z, e |-> regs.e, h |-> regs.h]

ted_point_add_avx2(p, q) ==
  ExtOf(Run([x |-> p.x, y |-> p.y, z |-> p.z, e |-> p.e, h |-> p.h, t |-> FZero,
             qx |-> q.x, qy |-> q.y, qz |-> q.z], TedAddProg))

ted_point_dbl_avx2(p) ==
  ExtOf(Run([x |-> p.x, y |-> p.y, z |-> p.z, e |-> p.e, h |-> p.h, t |-> FZero], TedDblProg))

\* ted_point_init_ext_avx2: the neutral element (0, 1, 1, 0, 1)
ted_point_init_ext_avx2 == [x |-> FZero, y |-> FOne, z |-> FOne, e |-> FZero, h |-> FOne]

\* mask[j] without the VSHUF32: only the low 32 bits are set
QueryMaskLow(babs, j) ==
  VSHR(VSUB(VXOR(babs, VSET164(Word(j))), VSET164(Word(1))), 32)

\* mask[j] of the query: all ones in the lanes whose |b| is j
QueryMask(babs, j) ==
  VSHUF32(VSHR(VSUB(VXOR(babs, VSET164(Word(j))), VSET164(Word(1))), 32), 160)

\* the masks with lane 0's selection broadcast to the four lanes
QueryMasksLane0(babs) ==
  <<VBROAD64(QueryMask(babs, 0)[1]), VBROAD64(QueryMask(babs, 1)[1]), VBROAD64(QueryMask(babs, 2)[1]),
    VBROAD64(QueryMask(babs, 3)[1]), VBROAD64(QueryMask(babs, 4)[1]), VBROAD64(QueryMask(babs, 5)[1]),
    VBROAD64(QueryMask(babs, 6)[1]), VBROAD64(QueryMask(babs, 7)[1]), VBROAD64(QueryMask(babs, 8)[1])>>

QueryMasks(babs) ==
  <<QueryMask(babs, 0), QueryMask(babs, 1), QueryMask(babs, 2), QueryMask(babs, 3), QueryMask(babs, 4),
    QueryMask(babs, 5), QueryMask(babs, 6), QueryMask(babs, 7), QueryMask(babs, 8)>>

\* chunk i of coordinate c: the XOR over the rows j of mask[j+1] & base[pos][j].c[i]
RECURSIVE SelRows(_, _, _, _, _)
SelRows(st, masks, col, c, i) ==   \* st = <<j + 1, accumulated chunk>>
  IF st[1] > 8 THEN st[2]
  ELSE SelRows(<<st[1] + 1,
                 VXOR(st[2], VAND(masks[st[1] + 1], VBROAD64(col[st[1]][c][i])))>>,
               masks, col, c, i)

\* the x and y slots start from mask[0] & 1/2, the z slot from 0
SelHalf(masks, col, c, i) ==
  SelRows(<<1, VXOR(VZERO, VAND(masks[1], VSET164(one_half[i])))>>, masks, col, c, i)

SelZero(masks, col, i) == SelRows(<<1, VZERO>>, masks, col, 3, i)

query_select(masks, col) ==
  <<<<SelHalf(masks, col, 1, 1), SelHalf(masks, col, 1, 2), SelHalf(masks, col, 1, 3), SelHalf(masks, col, 1, 4)>>,
    <<SelHalf(masks, col, 2, 1), SelHalf(masks, col, 2, 2), SelHalf(masks, col, 2, 3), SelHalf(masks, col, 2, 4)>>,
    <<SelZero(masks, col, 1), SelZero(masks, col, 2), SelZero(masks, col, 3), SelZero(masks, col, 4)>>>>

\* the sign of the nibble: bsign = b >> 7, without it (never negative)
BSignNone(b) == VSHR(b, 8)

BSign(b) == VSHR(b, 7)

\* xP and yP change places in the lanes of bmask
SwapChunk(u, v, bmask) == VXOR(u, VAND(VXOR(u, v), bmask))

query_sign(sel, bmask) ==
  <<<<SwapChunk(sel[1][1], sel[2][1], bmask), SwapChunk(sel[1][2], sel[2][2], bmask),
      SwapChunk(sel[1][3], sel[2][3], bmask), SwapChunk(sel[1][4], sel[2][4], bmask)>>,
    <<SwapChunk(sel[2][1], sel[1][1], bmask), SwapChunk(sel[2][2], sel[1][2], bmask),
      SwapChunk(sel[2][3], sel[1][3], bmask), SwapChunk(sel[2][4], sel[1][4], bmask)>>,
    sel[3]>>

\* lut_conv_coor2mpi29_avx2: limb k is bits 29k .. 29k+28 of the 256-bit
\* value held in four 64-bit chunks
LutLimb(c, k) ==
  IF ((29 * k) % 64) + 29 <= 64 \/ (29 * k) \div 64 = 3
  THEN VAND(VSHR(c[((29 * k) \div 64) + 1], (29 * k) % 64), VMASK29)
  ELSE VAND(VOR(VSHR(c[((29 * k) \div 64) + 1], (29 * k) % 64),
                VSHL(c[((29 * k) \div 64) + 2], 64 - ((29 * k) % 64))), VMASK29)

lut_conv_coor2mpi29_avx2(c) ==
  <<LutLimb(c, 0), LutLimb(c, 1), LutLimb(c, 2), LutLimb(c, 3), LutLimb(c, 4),
    LutLimb(c, 5), LutLimb(c, 6), LutLimb(c, 7), LutLimb(c, 8)>>

\* the z coordinate as converted, not negated in any lane
query_keepz(z, bsign) == z

\* the z coordinate is negated in the lanes of bsign
query_negz(z, bsign) == mpi29_cswap_avx2(z, mpi29_gfp_sub_avx2(FZero, mpi29_copy_avx2(z)), bsign)[1]

query_conv(s, bsign) ==
  [x |-> lut_conv_coor2mpi29_avx2(s[1]), y |-> lut_conv_coor2mpi29_avx2(s[2]),
   z |-> query_negz(lut_conv_coor2mpi29_avx2(s[3]), bsign)]

\* ted_point_query_table_avx2(r, pos, b) on the table tab
ted_point_query_table_avx2(tab, pos, b) ==
  query_conv(query_sign(query_select(QueryMasks(VABS8(b)), tab[pos + 1]), VSUB(VZERO, BSign(b))),
             BSign(b))

\* the table addresses (column, row, chunk) a query of column pos loads, per coordinate
QueryReads(pos) == {<<pos, j, i>> : j \in 0..7, i \in 0..3}

\* ted_conv_scalar2nibble_avx2
NibbleOf(k, n) == VAND(VSHR(k[(n \div 8) + 1], 4 * (n % 8)), VSET164(Word(15)))

\* the carry without the rounding: e >> 4
NibCarryFloor(e) == VSHR(e, 4)

NibCarry(e) == VSHR(VADD(e, VSET164(Word(8))), 4)

\* the digit without the subtraction of the carry
NibDigitKeep(e, c) == VAND(e, VSET164(Word(255)))

NibDigit(e, c) == VAND(VSUB(e, VSHL(c, 4)), VSET164(Word(255)))

NibNext(st, e, c) == <<st[1] + 1, c, Append(st[3], NibDigit(e, c))>>

NibStep(st, e) == NibNext(st, e, NibCarry(e))

RECURSIVE NibRec(_, _)
NibRec(st, k) ==   \* st = <<i, carry, e[0..i-1]>>
  IF st[1] = 63
  THEN Append(st[3], VAND(VADD(NibbleOf(k, 63), st[2]), VSET164(Word(255))))
  ELSE NibRec(NibStep(st, VADD(NibbleOf(k, st[1]), st[2])), k)

ted_conv_scalar2nibble_avx2(k) == NibRec(<<0, VZERO, <<>> >>, k)

\* mon_mul_fixbase_avx2 after the inversion: t = z + y, r = t * (1/(z - y))
fixbase_to_mon(h, inverse) == mpi29_gfp_mul_avx2(mpi29_gfp_add_avx2(h.z, h.y), inverse)

\* ---------------------------------------------------------------------- ecdh.c
\* keygen after the inversion, sharedsecret after the inversion
keygen_finish(h, inverse) == final_modp(fixbase_to_mon(h, inverse))

\* the test's exchange of the public keys: lanes 0 and 1, lanes 2 and 3 change places
KeepKeys(pk) == [i \in 1..NWORDS |-> VPERM64(pk[i], 228)]

ExchangeKeys(pk) == [i \in 1..NWORDS |-> VPERM64(pk[i], 177)]

\* the base-point table, row m-1 of column j holds m * 256^j * B, each entry in Duif
\* form ((y+x)/2, (y-x)/2, d*x*y), each coordinate as four 64-bit chunks
base_consecutive ==
  <<
   <<
     <<<<<<449191353, 519196443, 37>>, <<499517196, 508344091, 25>>, <<303997281, 472719969, 36>>, <<434789682, 524186856, 16>>>>,
       <<<<195053727, 339797015, 51>>, <<144727897, 350649367, 63>>, <<340247812, 386273489, 52>>, <<209455411, 334806602, 8>>>>,
       <<<<62739764, 254035990, 21>>, <<106259023, 459776143, 4>>, <<245476550, 141424431, 11>>, <<260453076, 474344866, 13>>>>>>,
     <<<<<<161364194, 143892466, 50>>, <<487062234, 488273497, 19>>, <<283837313, 177891735, 11>>, <<339646231, 70260990, 27>>>>,
       <<<<22702804, 174495105, 17>>, <<120608379, 481166385, 17>>, <<414653397, 41455022, 60>>, <<350524074, 248927897, 13>>>>,
       <<<<315473190, 267035342, 8>>, <<248342460, 453357429, 38>>, <<94287128, 4096528, 42>>, <<525501881, 7067332, 30>>>>>>,
     <<<<<<108481432, 479642273, 21>>, <<339944901, 157946051, 0>>, <<260092825, 74268682, 24>>, <<222329978, 140064878, 15>>>>,
       <<<<310274345, 428113826, 42>>, <<316726590, 256724983, 39>>, <<279309150, 80202856, 16>>, <<179170609, 182736413, 21>>>>,
       <<<<115895355, 314199292, 2>>, <<236645681, 38833288, 11>>, <<108621222, 96703766, 26>>, <<157080163, 144743100, 27>>>>>>,
     <<<<<<125699270, 30230246, 5>>, <<520000156, 496442321, 44>>, <<495274290, 147993847, 57>>, <<284345235, 3818508, 29>>>>,
       <<<<45354070, 402134056, 50>>, <<187727188, 167388613, 38>>, <<55584825, 262377268, 24>>, <<438489677, 508362033, 20>>>>,
       <<<<37453691, 139456423, 11>>, <<497967289, 444130581, 13>>, <<135635530, 393180132, 43>>, <<296394517, 510931709, 31>>>>>>,
     <<<<<<72539536, 139129104, 20>>, <<61830785, 356590351, 17>>, <<224392738, 342862897, 59>>, <<57738101, 85406661, 21>>>>,
       <<<<304343901, 507906830, 47>>, <<93557979, 335565637, 58>>, <<473059395, 217302130, 60>>, <<361605881, 355072463, 2>>>>,
       <<<<9781561, 317681606, 23>>, <<140437758, 473440287, 36>>, <<232706966, 275618860, 22>>, <<362666829, 246086053, 24>>>>>>,
     <<<<<<462076047, 137608109, 7>>, <<6576068, 211572260, 19>>, <<221041563, 26663331, 48>>, <<291904606, 127266522, 26>>>>,
       <<<<499041874, 106961625, 41>>, <<334042012, 493849104, 42>>, <<270707164, 203518876, 23>>, <<388021314, 47788294, 7>>>>,
       <<<<24454575, 380684700, 48>>, <<13688192, 432242701, 23>>, <<69066914, 261261612, 42>>, <<260485361, 48473194, 18>>>>>>,
     <<<<<<170349014, 208237378, 13>>, <<432988265, 297850090, 46>>, <<338302756, 113854984, 14>>, <<337529151, 409971108, 24>>>>,
       <<<<353964239, 163361386, 55>>, <<501027283, 310412620, 13>>, <<151819805, 397007166, 19>>, <<388598768, 364606836, 19>>>>,
       <<<<14440913, 101562144, 30>>, <<43995725, 202210588, 54>>, <<205248249, 175179497, 42>>, <<352831571, 176090225, 15>>>>>>,
     <<<<<<40804158, 115172760, 11>>, <<289683478, 315362783, 45>>, <<258793873, 80638361, 54>>, <<283013783, 72850817, 17>>>>,
       <<<<432609891, 178091959, 60>>, <<282766460, 418765315, 50>>, <<387846653, 278726321, 37>>, <<419889377, 172003972, 23>>>>,
       <<<<80824461, 520607591, 60>>, <<98980843, 42845666, 23>>, <<123409689, 227559524, 44>>, <<392570698, 440529264, 4>>>>>>
   >>,
   <<
     <<<<<<295161349, 456356921, 37>>, <<457480330, 121821785, 10>>, <<338804012, 192863662, 42>>, <<268924828, 390984998, 29>>>>,
       <<<<81078447, 359501137, 29>>, <<98779421, 26677884, 21>>, <<228681954, 338722725, 48>>, <<32082652, 56473020, 6>>>>,
       <<<<277049946, 286330972, 45>>, <<155631540, 223304194, 31>>, <<346464147, 298744465, 22>>, <<390276568, 52059204, 18>>>>>>,
     <<<<<<28075001, 311995010, 33>>, <<487596323, 150285197, 13>>, <<495515374, 294866584, 46>>, <<176423799, 251555517, 16>>>>,
       <<<<517943279, 307171485, 12>>, <<215400273, 427114164, 4>>, <<51913416, 402882337, 33>>, <<380862212, 395866799, 4>>>>,
       <<<<103559938, 474973347, 7>>, <<439138879, 492949426, 45>>, <<101266554, 47773623, 20>>, <<46362902, 431350157, 10>>>>>>,
     <<<<<<53286888, 68487703, 52>>, <<428553185, 294667435, 13>>, <<428701484, 2853121, 13>>, <<63559957, 334403533, 2>>>>,
       <<<<241206298, 417239678, 34>>, <<340648488, 305748822, 55>>, <<532670829, 316125245, 35>>, <<258349804, 241004329, 6>>>>,
       <<<<348322794, 324868185, 39>>, <<82051115, 83458579, 11>>, <<498108815, 521128665, 5>>, <<33433910, 302674858, 2>>>>>>,
     <<<<<<121173596, 127675581, 36>>, <<5389297, 425424613, 28>>, <<118400960, 496327483, 23>>, <<162446783, 401665809, 0>>>>,
       <<<<200198881, 487452178, 63>>, <<354900691, 298924226, 45>>, <<507704389, 405894532, 51>>, <<263897273, 526851193, 5>>>>,
       <<<<156757861, 316853945, 36>>, <<379426919, 307596851, 38>>, <<350175434, 244511246, 6>>, <<238194562, 484285725, 22>>>>>>,
     <<<<<<168964808, 218257196, 44>>, <<190884506, 474501376, 29>>, <<76045872, 417353778, 19>>, <<407387718, 265699676, 13>>>>,
       <<<<6870755, 518678517, 37>>, <<192571411, 203184574, 22>>, <<184032727, 227524936, 40>>, <<495746252, 519738800, 19>>>>,
       <<<<278965701, 513663943, 1>>, <<492950463, 419594206, 0>>, <<223431976, 491478754, 13>>, <<489794859, 155743193, 0>>>>>>,
     <<<<<<462925682, 72457345, 22>>, <<184798567, 65163974, 29>>, <<5652773, 199264564, 9>>, <<468104802, 6115175, 0>>>>,
       <<<<89041226, 83867692, 10>>, <<133147955, 509844848, 17>>, <<535856103, 294001186, 58>>, <<412882550, 511715833, 7>>>>,
       <<<<186576282, 295996598, 7>>, <<441162796, 393879402, 35>>, <<273217858, 190793702, 21>>, <<270825179, 181926078, 2>>>>>>,
     <<<<<<381128521, 481161370, 59>>, <<136692873, 228281485, 41>>, <<445531617, 285374209, 17>>, <<63661020, 502943496, 13>>>>,
       <<<<192835997, 130281234, 46>>, <<385461750, 249956782, 46>>, <<529818288, 135383431, 58>>, <<400068663, 309189605, 30>>>>,
       <<<<391337721, 493606930, 35>>, <<527584844, 76367814, 24>>, <<394245555, 111157975, 44>>, <<15732904, 523961404, 17>>>>>>,
     <<<<<<34744089, 399198839, 7>>, <<166489861, 201865682, 37>>, <<17174694, 320870906, 13>>, <<401955973, 81650777, 24>>>>,
       <<<<83824418, 288711321, 12>>, <<416725951, 133347976, 4>>, <<71297129, 152072554, 32>>, <<31623417, 67545542, 9>>>>,
       <<<<101547128, 46587218, 1>>, <<305220826, 406710768, 57>>, <<251882652, 495109092, 62>>, <<423004425, 116269549, 8>>>>>>
   >>,
   <<
     <<<<<<506677463, 411906405, 15>>, <<88267364, 304248052, 44>>, <<447053171, 193668144, 59>>, <<104156942, 169637916, 1>>>>,
       <<<<438412127, 60945681, 40>>, <<182097298, 354642768, 3>>, <<278769695, 283781218, 47>>, <<401006331, 450667268, 9>>>>,
       <<<<98452667, 201774693, 6>>, <<233742640, 229554409, 14>>, <<216715038, 361150344, 1>>, <<323152434, 463257660, 23>>>>>>,
     <<<<<<34552460, 266986782, 40>>, <<298722155, 387705189, 28>>, <<293770682, 68778103, 20>>, <<131876888, 354359947, 15>>>>,
       <<<<255781714, 390682514, 30>>, <<277188438, 5784945, 16>>, <<158385125, 308698486, 7>>, <<197694177, 235232650, 18>>>>,
       <<<<125332336, 527122514, 7>>, <<145373086, 351916650, 51>>, <<324911275, 129075264, 14>>, <<442824256, 305387060, 2>>>>>>,
     <<<<<<225589933, 157072886, 60>>, <<75080767, 453842670, 42>>, <<347100230, 524561845, 51>>, <<123162844, 507489973, 20>>>>,
       <<<<479885322, 445795289, 40>>, <<457311572, 442897147, 8>>, <<78679082, 310833322, 11>>, <<514776554, 533457018, 23>>>>,
       <<<<105487539, 111779966, 22>>, <<269780556, 277238384, 17>>, <<281976361, 71649860, 39>>, <<525218749, 68383755, 8>>>>>>,
     <<<<<<226800988, 75839515, 48>>, <<108144538, 111336228, 36>>, <<5182842, 345179305, 44>>, <<125719104, 93771410, 0>>>>,
       <<<<143794453, 181075320, 46>>, <<206675290, 132657358, 20>>, <<489249587, 321750023, 50>>, <<400009706, 303623170, 5>>>>,
       <<<<272774459, 105026002, 30>>, <<110607968, 197125651, 34>>, <<206902727, 91792409, 13>>, <<536831068, 74293094, 11>>>>>>,
     <<<<<<260856485, 115789254, 19>>, <<281424399, 295147498, 60>>, <<21988086, 69223643, 44>>, <<404228421, 40713753, 25>>>>,
       <<<<5918205, 79443058, 6>>, <<368703045, 98911610, 11>>, <<259526212, 163630850, 46>>, <<88587749, 394312479, 7>>>>,
       <<<<494258542, 147341492, 58>>, <<277566512, 92884689, 28>>, <<210097426, 368750492, 39>>, <<79060831, 131591913, 25>>>>>>,
     <<<<<<256781207, 360024624, 34>>, <<46408608, 154540723, 49>>, <<145469941, 109923289, 50>>, <<70494381, 445029130, 0>>>>,
       <<<<86894570, 38955074, 38>>, <<506608117, 285439426, 27>>, <<406718094, 185225988, 18>>, <<100480826, 403874231, 10>>>>,
       <<<<504083035, 170084177, 46>>, <<270583208, 156255491, 46>>, <<206994280, 470575488, 19>>, <<521380195, 40008231, 4>>>>>>,
     <<<<<<49640983, 433102382, 34>>, <<493196783, 411529245, 10>>, <<283507245, 271134809, 44>>, <<461556457, 204367171, 14>>>>,
       <<<<488039990, 106815476, 9>>, <<312994889, 169210034, 6>>, <<151253456, 166158739, 52>>, <<106118932, 269464692, 16>>>>,
       <<<<61301417, 86815958, 57>>, <<202520518, 396043070, 24>>, <<190847719, 523049960, 30>>, <<68689638, 257758476, 11>>>>>>,
     <<<<<<183745685, 387075204, 48>>, <<518450916, 422717066, 24>>, <<382856113, 343471778, 19>>, <<406060054, 249523272, 11>>>>,
       <<<<341386849, 510346836, 47>>, <<295362752, 497897877, 15>>, <<132135195, 451074489, 44>>, <<432035521, 216653825, 2>>>>,
       <<<<56963423, 92787103, 1>>, <<277653879, 330336088, 0>>, <<233481144, 9273822, 3>>, <<209219689, 272050613, 14>>>>>>
   >>,
   <<
     <<<<<<37495198, 208286044, 36>>, <<21012942, 517250107, 54>>, <<300712911, 246048683, 59>>, <<370508268, 269472917, 5>>>>,
       <<<<157804327, 488880157, 59>>, <<58066011, 268430284, 24>>, <<480914658, 365178026, 32>>, <<186601926, 410294250, 2>>>>,
       <<<<497668661, 71066069, 47>>, <<126233660, 32244931, 38>>, <<314539004, 104920540, 38>>, <<516644311, 106013430, 29>>>>>>,
     <<<<<<357862564, 57997209, 27>>, <<400583014, 21074696, 41>>, <<444527895, 220238232, 19>>, <<371529501, 83390777, 5>>>>,
       <<<<443383646, 343719195, 55>>, <<306178939, 331088978, 47>>, <<86235583, 209713001, 58>>, <<432548802, 155739793, 26>>>>,
       <<<<153651559, 498617646, 6>>, <<240168656, 14541527, 46>>, <<51255432, 18228925, 54>>, <<528585745, 226586897, 27>>>>>>,
     <<<<<<410253350, 262667035, 7>>, <<452043953, 430530169, 16>>, <<252637965, 353090648, 42>>, <<103636714, 474741715, 5>>>>,
       <<<<274873915, 93716836, 23>>, <<152946662, 532693042, 60>>, <<24213435, 300436, 0>>, <<341268983, 312325946, 20>>>>,
       <<<<266363808, 152341195, 33>>, <<6607363, 54639101, 2>>, <<476576564, 456937733, 24>>, <<206707656, 427945108, 11>>>>>>,
     <<<<<<315320202, 11603058, 20>>, <<392819200, 252753154, 60>>, <<386372461, 152345088, 26>>, <<253933620, 8178766, 4>>>>,
       <<<<376409100, 46954045, 11>>, <<28388433, 389979455, 6>>, <<326307511, 114294077, 60>>, <<375843579, 27177645, 10>>>>,
       <<<<67227295, 357170604, 31>>, <<12451843, 46474640, 3>>, <<387109460, 344472256, 58>>, <<287506874, 99805729, 23>>>>>>,
     <<<<<<67747050, 5705711, 47>>, <<250647928, 428232835, 52>>, <<47480554, 514261986, 31>>, <<15786281, 476905611, 30>>>>,
       <<<<405581017, 50643535, 6>>, <<349486267, 149587511, 28>>, <<420392723, 146756165, 4>>, <<456603165, 216484993, 4>>>>,
       <<<<144512970, 32990745, 27>>, <<485123972, 380792263, 62>>, <<256983513, 28249196, 26>>, <<214666555, 208167496, 22>>>>>>,
     <<<<<<247118158, 423935210, 4>>, <<335783247, 254773793, 11>>, <<146832354, 330761988, 48>>, <<455398205, 187008639, 19>>>>,
       <<<<497533027, 341425431, 62>>, <<283359975, 282795897, 19>>, <<136375438, 257138798, 60>>, <<31391504, 73003438, 6>>>>,
       <<<<153454644, 145547529, 62>>, <<391017667, 27316463, 10>>, <<87107684, 309708305, 63>>, <<260331656, 76601552, 12>>>>>>,
     <<<<<<219583260, 227354508, 49>>, <<233438874, 394189826, 19>>, <<298857938, 506447586, 47>>, <<476873250, 344631493, 2>>>>,
       <<<<61293757, 108332910, 27>>, <<369356304, 133863365, 1>>, <<134729182, 83145119, 15>>, <<254771104, 464488642, 24>>>>,
       <<<<347120796, 283163981, 5>>, <<462861960, 200868458, 59>>, <<455309587, 52481606, 29>>, <<43128886, 402244564, 8>>>>>>,
     <<<<<<71993919, 197731459, 12>>, <<531727953, 398466848, 0>>, <<451209820, 518854475, 45>>, <<448598306, 428244406, 18>>>>,
       <<<<184944070, 153212570, 27>>, <<394729360, 228803035, 11>>, <<512083946, 535643964, 0>>, <<275892586, 171202702, 8>>>>,
       <<<<13730933, 20785424, 1>>, <<458417494, 8939277, 53>>, <<32038462, 451115289, 27>>, <<274635875, 369452213, 19>>>>>>
   >>,
   <<
     <<<<<<499311348, 496425597, 16>>, <<146038105, 532782639, 45>>, <<244942797, 163814896, 7>>, <<408405822, 159233350, 7>>>>,
       <<<<319215142, 81403226, 44>>, <<366341675, 528530859, 34>>, <<107415486, 476380341, 15>>, <<83259000, 9251294, 20>>>>,
       <<<<414996777, 457717465, 14>>, <<177170608, 477156327, 0>>, <<435292344, 413739138, 30>>, <<511701427, 324667604, 15>>>>>>,
     <<<<<<341211760, 429340033, 52>>, <<510390761, 191149152, 40>>, <<430969580, 493150836, 42>>, <<362179711, 465605868, 23>>>>,
       <<<<205782363, 260477295, 1>>, <<488644023, 168929482, 5>>, <<347549696, 105398347, 59>>, <<502138017, 14885400, 5>>>>,
       <<<<86190104, 95339325, 58>>, <<182631381, 153464068, 63>>, <<441819342, 188660267, 16>>, <<55841801, 124969624, 4>>>>>>,
     <<<<<<523999453, 171181034, 51>>, <<290393156, 135102969, 48>>, <<33156287, 187697373, 54>>, <<372749253, 370161405, 11>>>>,
       <<<<105828324, 293605658, 43>>, <<169169381, 352331195, 4>>, <<158799822, 158151984, 34>>, <<173117141, 252658182, 1>>>>,
       <<<<407892156, 28893236, 46>>, <<485536483, 448837274, 45>>, <<517410901, 518974053, 42>>, <<358665070, 151640204, 23>>>>>>,
     <<<<<<228736860, 266536395, 39>>, <<51648222, 524226687, 11>>, <<450169599, 45350657, 48>>, <<309384444, 499328928, 16>>>>,
       <<<<87573117, 218696882, 41>>, <<266138274, 103311247, 49>>, <<237793838, 444334214, 55>>, <<280425960, 533061434, 3>>>>,
       <<<<47897333, 495412841, 25>>, <<228408466, 405148580, 48>>, <<404692804, 482354276, 28>>, <<11011471, 130651125, 23>>>>>>,
     <<<<<<520404455, 107817647, 58>>, <<267390100, 297268103, 52>>, <<374569215, 254026320, 24>>, <<370866343, 387482780, 28>>>>,
       <<<<234090830, 515166303, 20>>, <<365824462, 374398376, 55>>, <<162315732, 61107770, 20>>, <<340020256, 474701009, 2>>>>,
       <<<<119065061, 481175523, 60>>, <<278061149, 339791194, 41>>, <<386826049, 275162356, 0>>, <<416182585, 199622698, 20>>>>>>,
     <<<<<<221740758, 134905718, 40>>, <<441623712, 72039160, 55>>, <<64944573, 272470758, 12>>, <<46949722, 96899918, 8>>>>,
       <<<<525302876, 23648808, 44>>, <<313009034, 262602890, 60>>, <<261231175, 351609537, 42>>, <<305861490, 265313077, 18>>>>,
       <<<<216311366, 144532138, 63>>, <<402676739, 201440702, 4>>, <<384641481, 256526198, 63>>, <<195422421, 34100201, 10>>>>>>,
     <<<<<<166199787, 409491181, 40>>, <<511304882, 138453538, 22>>, <<372514093, 521525717, 36>>, <<70670883, 165503635, 7>>>>,
       <<<<527138588, 134849620, 24>>, <<143571938, 426351845, 20>>, <<369776586, 259561752, 57>>, <<399889317, 199590833, 20>>>>,
       <<<<165095483, 302270426, 10>>, <<251570771, 381192060, 35>>, <<428388146, 143798851, 2>>, <<116652618, 377439614, 11>>>>>>,
     <<<<<<392931599, 479278251, 39>>, <<26692362, 418005153, 17>>, <<390990698, 93514204, 28>>, <<66440300, 252059625, 7>>>>,
       <<<<380746038, 206578509, 32>>, <<199482009, 148794303, 45>>, <<106393893, 126238487, 53>>, <<130539369, 213702213, 22>>>>,
       <<<<356737286, 354157655, 45>>, <<371419282, 103472941, 19>>, <<489881796, 501271252, 58>>, <<137878785, 339085114, 8>>>>>>
   >>,
   <<
     <<<<<<240597526, 30630488, 58>>, <<386806262, 28599255, 63>>, <<335181460, 519509359, 18>>, <<320690308, 317409765, 25>>>>,
       <<<<319826225, 435083910, 45>>, <<10372929, 154961757, 21>>, <<340242009, 492520791, 45>>, <<320482800, 394884398, 21>>>>,
       <<<<275484637, 54935698, 16>>, <<496256380, 345442347, 56>>, <<261960204, 109993261, 54>>, <<285227289, 369030079, 31>>>>>>,
     <<<<<<434194506, 368146199, 57>>, <<357073621, 503745128, 24>>, <<17700908, 51934425, 48>>, <<241986155, 510871131, 9>>>>,
       <<<<322278391, 196901288, 31>>, <<179949451, 431072019, 16>>, <<226605846, 438877936, 62>>, <<64728390, 97848698, 27>>>>,
       <<<<356359092, 105537377, 35>>, <<224967985, 54616208, 58>>, <<235800075, 134902453, 55>>, <<473760131, 322388496, 15>>>>>>,
     <<<<<<330327616, 204607585, 51>>, <<223974732, 381157864, 25>>, <<285601036, 37204505, 21>>, <<13133090, 374286866, 22>>>>,
       <<<<378733058, 312019121, 59>>, <<172040286, 408220994, 53>>, <<498361147, 117638867, 53>>, <<283666345, 170869685, 24>>>>,
       <<<<256003402, 139223657, 50>>, <<317488486, 325258453, 58>>, <<167697896, 290017645, 17>>, <<219591155, 484838435, 20>>>>>>,
     <<<<<<87560736, 109328688, 23>>, <<180260335, 512319899, 33>>, <<110357883, 518481623, 63>>, <<76945918, 481338645, 26>>>>,
       <<<<28273152, 185480353, 40>>, <<423388772, 356765056, 55>>, <<485294583, 203336809, 55>>, <<524687786, 441867962, 20>>>>,
       <<<<191273055, 503258391, 56>>, <<299718525, 327131983, 28>>, <<355396870, 145891522, 20>>, <<3007808, 509694563, 15>>>>>>,
     <<<<<<132100520, 223892808, 26>>, <<128384467, 1141015, 1>>, <<60805217, 453590770, 61>>, <<189630835, 63542515, 22>>>>,
       <<<<260436098, 19348002, 7>>, <<497701188, 1487981, 16>>, <<301877518, 378474108, 7>>, <<85522818, 453751068, 30>>>>,
       <<<<358647353, 136520930, 49>>, <<227784165, 408841603, 8>>, <<121099832, 75694200, 21>>, <<213006829, 474599365, 21>>>>>>,
     <<<<<<181634528, 19017565, 38>>, <<417997171, 458938003, 0>>, <<506245297, 189176442, 29>>, <<383974338, 45114975, 7>>>>,
       <<<<91229951, 484962802, 40>>, <<87381455, 357159489, 31>>, <<62474135, 124135946, 8>>, <<204322041, 377052331, 27>>>>,
       <<<<329832596, 429577310, 0>>, <<525189830, 301210137, 46>>, <<44494628, 313720901, 21>>, <<536146766, 192886386, 20>>>>>>,
     <<<<<<136179783, 464611024, 42>>, <<153943220, 462351283, 5>>, <<167437977, 99797584, 15>>, <<308736569, 530980320, 17>>>>,
       <<<<25593443, 393169795, 49>>, <<375234969, 372873598, 53>>, <<420825871, 497849904, 49>>, <<170156259, 212097793, 29>>>>,
       <<<<89999508, 460116804, 15>>, <<389469703, 445593096, 41>>, <<314342410, 404813821, 44>>, <<536347915, 281083073, 25>>>>>>,
     <<<<<<116171392, 133172576, 37>>, <<400422473, 323611281, 29>>, <<24204284, 203969919, 34>>, <<461590762, 95179882, 8>>>>,
       <<<<198788665, 204009304, 26>>, <<482057717, 390979292, 56>>, <<255143519, 454794800, 24>>, <<93674466, 361161694, 17>>>>,
       <<<<350264152, 446914495, 10>>, <<208807312, 337614645, 55>>, <<229371989, 530104168, 21>>, <<20706409, 73968605, 3>>>>>>
   >>,
   <<
     <<<<<<128124788, 530099469, 19>>, <<320537579, 457969490, 27>>, <<466644242, 21529658, 62>>, <<2764233, 234485496, 20>>>>,
       <<<<43911695, 408673583, 25>>, <<272201455, 240949048, 37>>, <<450436979, 48696766, 23>>, <<95315076, 414726420, 31>>>>,
       <<<<327211544, 81123253, 0>>, <<260439688, 205673370, 4>>, <<32653201, 348666966, 46>>, <<411609841, 113154662, 14>>>>>>,
     <<<<<<60663915, 151580785, 29>>, <<496793480, 128051324, 42>>, <<426041162, 236125566, 19>>, <<477908238, 30179057, 0>>>>,
       <<<<480893701, 389660268, 12>>, <<399548659, 425781162, 24>>, <<352038143, 487423990, 1>>, <<22602055, 138742695, 16>>>>,
       <<<<75238464, 281222241, 60>>, <<258433164, 509096073, 55>>, <<366807793, 460030477, 22>>, <<66104324, 288734413, 9>>>>>>,
     <<<<<<206015672, 473135090, 37>>, <<408746637, 239437982, 13>>, <<466139999, 455006993, 13>>, <<340250580, 50222082, 7>>>>,
       <<<<12488667, 64992063, 3>>, <<144711178, 299357849, 45>>, <<469173871, 259638447, 27>>, <<334642449, 83850922, 19>>>>,
       <<<<468992942, 525018352, 3>>, <<208184086, 198736232, 20>>, <<479332667, 33805832, 42>>, <<528917684, 163505786, 29>>>>>>,
     <<<<<<460460515, 449088214, 29>>, <<423854023, 242597955, 18>>, <<250064582, 44345868, 18>>, <<23262600, 230648445, 2>>>>,
       <<<<184822508, 152766189, 45>>, <<474609742, 274394339, 36>>, <<129554016, 477381854, 26>>, <<294407029, 400401490, 30>>>>,
       <<<<293789407, 87260870, 31>>, <<268178948, 483995254, 1>>, <<31304773, 169829015, 5>>, <<99905117, 143002948, 16>>>>>>,
     <<<<<<26754358, 359252997, 51>>, <<37671471, 26180219, 54>>, <<524893545, 183499082, 4>>, <<513810742, 236916999, 18>>>>,
       <<<<257332874, 199071969, 9>>, <<87960600, 37446147, 52>>, <<135302942, 340695960, 33>>, <<499136001, 136082309, 13>>>>,
       <<<<63686012, 391057222, 54>>, <<528949769, 145582325, 14>>, <<497270352, 367862050, 1>>, <<395275849, 96913834, 6>>>>>>,
     <<<<<<423961567, 406249314, 52>>, <<196629112, 452744024, 20>>, <<166649516, 310895181, 58>>, <<438378996, 289745292, 29>>>>,
       <<<<195765844, 79480386, 53>>, <<289075340, 502194480, 31>>, <<306423976, 492304606, 9>>, <<511197613, 142561820, 4>>>>,
       <<<<487240087, 210272572, 36>>, <<486867350, 231703462, 31>>, <<8880519, 327382321, 31>>, <<499721557, 57316955, 25>>>>>>,
     <<<<<<69618624, 332952951, 2>>, <<396411139, 84404111, 19>>, <<439434198, 399958588, 57>>, <<121978068, 52486120, 27>>>>,
       <<<<240307802, 455752089, 13>>, <<387733072, 18650412, 21>>, <<151981031, 113187875, 38>>, <<90973563, 498555891, 28>>>>,
       <<<<192825388, 333816342, 33>>, <<497766413, 393408461, 3>>, <<77261621, 319528437, 27>>, <<55754629, 289263563, 3>>>>>>,
     <<<<<<507386434, 230277563, 54>>, <<31516592, 259991251, 46>>, <<470705138, 209053477, 29>>, <<517452718, 18246509, 14>>>>,
       <<<<405786708, 434716404, 33>>, <<174272982, 175453057, 16>>, <<401710116, 277286412, 30>>, <<234563105, 90906676, 31>>>>,
       <<<<148510160, 239562022, 3>>, <<92368485, 479877261, 10>>, <<264649838, 528382868, 51>>, <<108072937, 528845330, 27>>>>>>
   >>,
   <<
     <<<<<<247355652, 31855797, 37>>, <<339671411, 58422721, 55>>, <<280247368, 271580844, 59>>, <<331273498, 219349261, 5>>>>,
       <<<<281692941, 426018111, 41>>, <<112780967, 117045020, 41>>, <<497580310, 201539400, 18>>, <<508082457, 505893147, 8>>>>,
       <<<<61299655, 141696684, 35>>, <<216889907, 186336826, 63>>, <<69716019, 447934261, 7>>, <<366793330, 51690428, 12>>>>>>,
     <<<<<<509032063, 11474697, 46>>, <<173164117, 320710253, 8>>, <<488937305, 519111002, 61>>, <<215692214, 56477987, 30>>>>,
       <<<<503236079, 225847024, 1>>, <<83470989, 28199135, 54>>, <<177738874, 422599363, 33>>, <<375907669, 49443012, 18>>>>,
       <<<<526471204, 170631468, 21>>, <<378257648, 27687891, 51>>, <<407323368, 85217169, 47>>, <<347830793, 232091470, 28>>>>>>,
     <<<<<<200857170, 387727458, 7>>, <<11722220, 392820091, 43>>, <<131105031, 37318256, 10>>, <<467834155, 495834204, 20>>>>,
       <<<<359171104, 360612088, 54>>, <<259201716, 364762690, 6>>, <<523557960, 535283702, 19>>, <<98613186, 372442898, 17>>>>,
       <<<<391777483, 173017933, 32>>, <<467284050, 47266297, 30>>, <<169747627, 513902787, 57>>, <<493400947, 51082793, 30>>>>>>,
     <<<<<<477544192, 122837494, 18>>, <<196821181, 278182955, 14>>, <<113414834, 270928768, 60>>, <<189963890, 182551776, 22>>>>,
       <<<<263714311, 361124162, 44>>, <<56830150, 414841509, 29>>, <<334515630, 483329997, 50>>, <<298467914, 406761869, 5>>>>,
       <<<<304375474, 127917819, 15>>, <<71058280, 186706332, 13>>, <<275934615, 41898854, 63>>, <<430778272, 98862449, 8>>>>>>,
     <<<<<<339076762, 314101476, 28>>, <<181332846, 532544217, 54>>, <<434751247, 506220670, 4>>, <<287367491, 132781464, 6>>>>,
       <<<<200177301, 297948063, 17>>, <<65654328, 535702285, 18>>, <<344157313, 82804942, 28>>, <<107794107, 856716, 14>>>>,
       <<<<387649914, 503951624, 53>>, <<203008022, 75539998, 56>>, <<362563729, 252108676, 51>>, <<348820036, 317492298, 4>>>>>>,
     <<<<<<452734508, 132133035, 8>>, <<41759690, 30020364, 45>>, <<299699670, 85425766, 17>>, <<536194699, 343190503, 17>>>>,
       <<<<426718168, 111391836, 22>>, <<51225764, 315773025, 7>>, <<459791977, 452267277, 17>>, <<252461060, 532216348, 17>>>>,
       <<<<422645606, 124398212, 53>>, <<210842300, 48269957, 38>>, <<332226761, 1074670, 8>>, <<204050107, 447962716, 18>>>>>>,
     <<<<<<474209101, 90643221, 25>>, <<264798045, 327580341, 18>>, <<295795330, 461977994, 2>>, <<202050432, 423316780, 18>>>>,
       <<<<382570133, 192793276, 14>>, <<303632941, 219719898, 44>>, <<190434075, 456819172, 39>>, <<479728004, 150485978, 18>>>>,
       <<<<211284813, 33252656, 41>>, <<491293321, 112767912, 44>>, <<483553043, 502258510, 48>>, <<138017269, 57163544, 15>>>>>>,
     <<<<<<335945034, 176030661, 20>>, <<225768435, 131987540, 46>>, <<67157177, 67356001, 34>>, <<190433006, 355111628, 0>>>>,
       <<<<311812917, 264598691, 11>>, <<410520903, 287280225, 37>>, <<56706542, 275169008, 4>>, <<313887645, 345471916, 5>>>>,
       <<<<210976348, 522263092, 59>>, <<326280919, 211935857, 33>>, <<322401803, 195851433, 5>>, <<364827568, 219693722, 2>>>>>>
   >>,
   <<
     <<<<<<468253313, 346658717, 57>>, <<131412088, 304498206, 42>>, <<224265074, 115142387, 54>>, <<348022013, 354542382, 28>>>>,
       <<<<117135487, 72235806, 42>>, <<314243725, 241134119, 42>>, <<415070428, 75622517, 1>>, <<361786152, 67892968, 4>>>>,
       <<<<44987207, 444305428, 50>>, <<153671316, 452107680, 38>>, <<356438538, 141284446, 7>>, <<351689053, 190617452, 17>>>>>>,
     <<<<<<226670521, 455012402, 63>>, <<335216619, 234178979, 10>>, <<25778045, 515840393, 46>>, <<18665452, 496860492, 25>>>>,
       <<<<27726370, 285843142, 59>>, <<409406946, 433394389, 54>>, <<468234091, 197257263, 3>>, <<416291624, 197083117, 25>>>>,
       <<<<34245519, 213178584, 56>>, <<80487453, 347061318, 25>>, <<139077768, 472496823, 48>>, <<290730672, 254995914, 1>>>>>>,
     <<<<<<142543179, 28670257, 3>>, <<527716287, 15068683, 28>>, <<137894104, 253745941, 7>>, <<138910689, 434369956, 12>>>>,
       <<<<358143204, 24795327, 35>>, <<311049958, 463444181, 16>>, <<497923833, 38502598, 22>>, <<216751007, 9683629, 8>>>>,
       <<<<297021921, 370927813, 2>>, <<194419193, 534393121, 0>>, <<474961790, 500118141, 41>>, <<123118464, 353077314, 5>>>>>>,
     <<<<<<128563904, 96857140, 4>>, <<160367398, 87663660, 50>>, <<446001231, 249175737, 3>>, <<228662839, 137350814, 24>>>>,
       <<<<175106372, 534006870, 18>>, <<413115957, 89547124, 12>>, <<69380104, 243596316, 29>>, <<476670353, 497850402, 28>>>>,
       <<<<237868442, 81979796, 16>>, <<411930048, 432462768, 16>>, <<504928984, 268186310, 15>>, <<235305200, 292863978, 30>>>>>>,
     <<<<<<283748149, 14384476, 12>>, <<213768680, 124657822, 22>>, <<70956413, 252192527, 58>>, <<101639196, 461729685, 0>>>>,
       <<<<367322197, 491350136, 55>>, <<321113792, 158111776, 61>>, <<260090605, 340204603, 26>>, <<184974056, 193524654, 19>>>>,
       <<<<211373221, 231306780, 11>>, <<123268440, 148140759, 38>>, <<224126210, 386946343, 47>>, <<331833595, 58417540, 11>>>>>>,
     <<<<<<459367636, 401436322, 5>>, <<446049478, 62635579, 41>>, <<412519097, 235029535, 6>>, <<160345580, 48866733, 1>>>>,
       <<<<422797998, 6086223, 59>>, <<102934308, 52812567, 25>>, <<504586708, 328076258, 43>>, <<172161916, 533624737, 5>>>>,
       <<<<33022653, 531954619, 46>>, <<176137224, 327242847, 32>>, <<416495845, 150333695, 29>>, <<171867946, 135843538, 2>>>>>>,
     <<<<<<76089349, 183813405, 16>>, <<523755267, 411954613, 27>>, <<150289635, 75094116, 28>>, <<94150127, 487387023, 0>>>>,
       <<<<145784865, 240280034, 1>>, <<376831348, 463389939, 9>>, <<175657568, 49925718, 46>>, <<443205826, 390867558, 6>>>>,
       <<<<242535418, 501551873, 63>>, <<405678289, 494204818, 10>>, <<221987390, 13502453, 43>>, <<494628175, 370998137, 5>>>>>>,
     <<<<<<120519863, 159910789, 53>>, <<134934778, 137716829, 20>>, <<493948598, 42587982, 35>>, <<11534633, 353207848, 16>>>>,
       <<<<26974715, 367576465, 34>>, <<441794796, 182640571, 31>>, <<450044931, 38796187, 22>>, <<406836187, 433903953, 21>>>>,
       <<<<195432919, 397080530, 33>>, <<250028873, 163326102, 21>>, <<290282774, 276869858, 32>>, <<377735942, 206638296, 25>>>>>>
   >>,
   <<
     <<<<<<237588060, 435245988, 50>>, <<308484861, 64526921, 38>>, <<470355122, 488554449, 4>>, <<360396718, 470683747, 18>>>>,
       <<<<456593341, 320003870, 25>>, <<444995519, 274069655, 8>>, <<413095822, 465680369, 39>>, <<158151163, 12390813, 11>>>>,
       <<<<270083698, 415625036, 24>>, <<304367074, 4262818, 21>>, <<120392114, 142329389, 54>>, <<114378468, 279474479, 1>>>>>>,
     <<<<<<350139545, 387056929, 29>>, <<521029265, 364265974, 33>>, <<179200725, 418334795, 56>>, <<294284865, 162163906, 27>>>>,
       <<<<395280922, 154607425, 58>>, <<230940716, 144341243, 54>>, <<500787527, 90966475, 58>>, <<58401851, 290860871, 31>>>>,
       <<<<164307733, 61887635, 26>>, <<28119672, 183339563, 2>>, <<241053650, 338749924, 52>>, <<92133345, 269653800, 16>>>>>>,
     <<<<<<354465759, 183662700, 44>>, <<296234181, 387701923, 54>>, <<514766003, 282132320, 0>>, <<335312716, 88724571, 23>>>>,
       <<<<89367019, 276627484, 17>>, <<227749748, 317408045, 25>>, <<323479919, 489427373, 42>>, <<91147033, 417689591, 8>>>>,
       <<<<221171022, 100625588, 2>>, <<142618133, 299702003, 19>>, <<174766069, 525532101, 29>>, <<336685067, 425617575, 14>>>>>>,
     <<<<<<156899961, 217240653, 38>>, <<166674544, 13148454, 27>>, <<445029095, 356819485, 54>>, <<353614816, 185881324, 0>>>>,
       <<<<81794306, 383400441, 40>>, <<508875199, 255149706, 36>>, <<370222605, 458849351, 39>>, <<251846360, 244192114, 24>>>>,
       <<<<100195097, 19879786, 45>>, <<458925481, 237981179, 63>>, <<349727017, 82074462, 38>>, <<279593004, 92424229, 18>>>>>>,
     <<<<<<458073821, 148985944, 47>>, <<313399985, 385921693, 46>>, <<175685648, 386428903, 15>>, <<150171681, 495842770, 21>>>>,
       <<<<351102933, 288643492, 54>>, <<34188487, 155876658, 59>>, <<43952812, 129863465, 61>>, <<45401861, 343427439, 6>>>>,
       <<<<226180575, 315780376, 58>>, <<72729776, 403443179, 58>>, <<483609853, 125535871, 14>>, <<333911373, 476099611, 15>>>>>>,
     <<<<<<118536849, 85274058, 1>>, <<172121196, 157524947, 21>>, <<530794526, 224433461, 58>>, <<302917899, 313721100, 8>>>>,
       <<<<360756342, 166869394, 47>>, <<183952033, 224995668, 25>>, <<65439597, 89417549, 1>>, <<438258136, 525513264, 12>>>>,
       <<<<129838002, 301313773, 35>>, <<146901488, 215481170, 17>>, <<79012674, 192055067, 41>>, <<156678366, 364147212, 26>>>>>>,
     <<<<<<411956231, 130129242, 48>>, <<139590126, 515891340, 33>>, <<357344046, 46874965, 63>>, <<105267074, 99285219, 17>>>>,
       <<<<105290945, 532480908, 2>>, <<181533978, 131865848, 6>>, <<62501431, 478662444, 41>>, <<247539583, 296858036, 14>>>>,
       <<<<525506258, 287778333, 33>>, <<233705121, 286106966, 9>>, <<468088297, 145809447, 32>>, <<100090462, 502813325, 10>>>>>>,
     <<<<<<514255756, 335231738, 50>>, <<50827528, 296304488, 62>>, <<6580479, 153707999, 34>>, <<494946634, 21762787, 30>>>>,
       <<<<282303877, 59351729, 62>>, <<466146042, 200009792, 62>>, <<364281972, 126155273, 24>>, <<401328033, 65665957, 12>>>>,
       <<<<110409571, 418673877, 22>>, <<265722092, 252450041, 30>>, <<442409334, 472798770, 44>>, <<280078846, 82196530, 4>>>>>>
   >>,
   <<
     <<<<<<442215159, 509783014, 4>>, <<239523513, 447858765, 43>>, <<282841105, 188393861, 26>>, <<348634791, 251578899, 19>>>>,
       <<<<471177712, 131339816, 17>>, <<379871322, 193652782, 11>>, <<312400311, 508482574, 17>>, <<181475699, 177190518, 27>>>>,
       <<<<65843879, 362667943, 12>>, <<425967643, 212617553, 25>>, <<212350839, 336906855, 12>>, <<256158694, 136283449, 25>>>>>>,
     <<<<<<37474884, 271409975, 36>>, <<304347147, 350448505, 63>>, <<333722966, 105526474, 35>>, <<39309376, 46001078, 26>>>>,
       <<<<201784515, 462441262, 41>>, <<506946488, 207052220, 52>>, <<154024958, 244823930, 23>>, <<244881921, 472821988, 23>>>>,
       <<<<184233449, 423589892, 13>>, <<280003801, 106993796, 37>>, <<97971052, 529924, 15>>, <<494266371, 75926618, 19>>>>>>,
     <<<<<<217702588, 493532779, 26>>, <<274260174, 430455741, 42>>, <<313395052, 443035312, 39>>, <<271672314, 202536882, 31>>>>,
       <<<<266090622, 84459003, 49>>, <<129718750, 279293869, 37>>, <<459351803, 484689744, 0>>, <<289003352, 291732743, 12>>>>,
       <<<<446833208, 321883624, 59>>, <<133619529, 371320012, 46>>, <<157478595, 25170700, 15>>, <<21661490, 38761263, 28>>>>>>,
     <<<<<<272761244, 259767033, 13>>, <<470277162, 107416281, 38>>, <<454460234, 483252910, 18>>, <<95567560, 415630118, 29>>>>,
       <<<<49297453, 533621270, 35>>, <<435395737, 457348962, 38>>, <<415736477, 250071941, 8>>, <<68408510, 524789793, 26>>>>,
       <<<<278157359, 434822046, 29>>, <<164906453, 319120822, 20>>, <<420524184, 517175818, 30>>, <<248241804, 419063415, 22>>>>>>,
     <<<<<<287692643, 476128115, 5>>, <<492722096, 443402582, 46>>, <<511177880, 53277112, 50>>, <<58513834, 209608303, 4>>>>,
       <<<<452399074, 446762756, 50>>, <<74605671, 498781524, 18>>, <<449210776, 280862726, 54>>, <<345834133, 62549473, 9>>>>,
       <<<<102070755, 281508143, 43>>, <<521160335, 19841219, 22>>, <<11000371, 506839079, 54>>, <<71078409, 510650988, 0>>>>>>,
     <<<<<<292200729, 254260738, 30>>, <<469441705, 176303585, 33>>, <<142879290, 498512271, 58>>, <<171454901, 466873430, 19>>>>,
       <<<<219678458, 239135047, 28>>, <<517254488, 283480204, 16>>, <<94024256, 351519924, 29>>, <<37796042, 238149594, 0>>>>,
       <<<<227229174, 356088729, 16>>, <<191391457, 90450186, 43>>, <<201855180, 181107922, 14>>, <<84279211, 494642345, 10>>>>>>,
     <<<<<<89287671, 354087188, 11>>, <<312073452, 247220382, 24>>, <<365200225, 41479320, 39>>, <<471313421, 2652664, 20>>>>,
       <<<<84678622, 318898754, 58>>, <<212094686, 59097866, 6>>, <<159095279, 384496989, 0>>, <<376045184, 257137732, 24>>>>,
       <<<<360488281, 104261023, 10>>, <<45295968, 116548204, 46>>, <<188271610, 414062437, 31>>, <<311371548, 339421513, 16>>>>>>,
     <<<<<<275985525, 514909657, 50>>, <<178084427, 208072696, 51>>, <<443962319, 314959572, 41>>, <<278452011, 88539774, 12>>>>,
       <<<<44009038, 218917753, 56>>, <<532159949, 131338619, 61>>, <<381828510, 325446439, 31>>, <<237795939, 205232904, 9>>>>,
       <<<<519581387, 198537271, 7>>, <<358250301, 345553792, 59>>, <<151751556, 113962524, 34>>, <<491909, 532452330, 3>>>>>>
   >>,
   <<
     <<<<<<407614915, 189448148, 4>>, <<23667458, 373481499, 49>>, <<116579698, 310781361, 59>>, <<68814347, 98203, 5>>>>,
       <<<<223582411, 525946860, 6>>, <<535540236, 508712128, 1>>, <<496831449, 343944231, 21>>, <<400830623, 288695460, 10>>>>,
       <<<<438911812, 197061244, 45>>, <<310918864, 275775056, 11>>, <<325887387, 493809461, 30>>, <<127448829, 194103884, 14>>>>>>,
     <<<<<<160774922, 533715159, 0>>, <<263369592, 178861593, 15>>, <<342368808, 303537756, 7>>, <<133181980, 532282368, 19>>>>,
       <<<<197166110, 441745970, 36>>, <<295864176, 88123436, 22>>, <<33025793, 376879768, 31>>, <<328847782, 175422000, 27>>>>,
       <<<<32373737, 424417128, 46>>, <<169502430, 325830948, 20>>, <<153437302, 220944183, 47>>, <<386007713, 65339719, 16>>>>>>,
     <<<<<<64474016, 532565740, 58>>, <<517714771, 16466748, 43>>, <<386240354, 430334717, 25>>, <<250217001, 517996361, 24>>>>,
       <<<<32086105, 349547663, 17>>, <<404983171, 141700718, 30>>, <<388062238, 229688753, 54>>, <<99965062, 526283258, 0>>>>,
       <<<<503606921, 535817842, 48>>, <<284647757, 135900395, 49>>, <<227533023, 358387887, 1>>, <<257107419, 282362509, 3>>>>>>,
     <<<<<<280354851, 379698432, 25>>, <<157183039, 518818932, 3>>, <<199460040, 307604088, 54>>, <<325621546, 30683373, 23>>>>,
       <<<<509989285, 55135898, 48>>, <<471601357, 428281476, 7>>, <<205615563, 51304454, 50>>, <<243757879, 284431837, 3>>>>,
       <<<<168915597, 79414530, 45>>, <<363789112, 251862256, 57>>, <<438726676, 67452829, 4>>, <<160965694, 411536159, 0>>>>>>,
     <<<<<<409860208, 515399258, 22>>, <<280916171, 327073511, 10>>, <<349524442, 373866951, 36>>, <<276830030, 372859506, 27>>>>,
       <<<<19710397, 509707058, 21>>, <<55561582, 61416199, 18>>, <<313265944, 345579741, 12>>, <<501863134, 2054181, 16>>>>,
       <<<<69293212, 50099796, 24>>, <<206018335, 189730189, 54>>, <<497611127, 173560034, 1>>, <<504258499, 370105824, 18>>>>>>,
     <<<<<<105813082, 859155, 50>>, <<462840519, 342728315, 3>>, <<523092883, 461679998, 2>>, <<31632389, 90183994, 25>>>>,
       <<<<248593767, 330992573, 29>>, <<179536058, 99674193, 11>>, <<319064893, 110667849, 25>>, <<16172984, 346651834, 20>>>>,
       <<<<137589757, 346181785, 33>>, <<406734389, 319806996, 63>>, <<101222782, 223308256, 3>>, <<203545028, 510680111, 16>>>>>>,
     <<<<<<7006251, 391853379, 57>>, <<495037341, 199074230, 19>>, <<434239396, 312068351, 7>>, <<415090022, 497222492, 12>>>>,
       <<<<310196214, 337359761, 32>>, <<285405841, 462228601, 23>>, <<148665633, 367331473, 6>>, <<90504576, 397416333, 29>>>>,
       <<<<413851856, 316184471, 50>>, <<213761480, 99602078, 8>>, <<380998400, 145946481, 24>>, <<249997690, 85030995, 26>>>>>>,
     <<<<<<366957089, 80027308, 49>>, <<151242900, 290359614, 49>>, <<521698259, 220718370, 41>>, <<388491806, 195444769, 18>>>>,
       <<<<495592607, 490777900, 42>>, <<36036185, 429915565, 49>>, <<187810541, 49652892, 23>>, <<298404580, 207731911, 18>>>>,
       <<<<535813527, 70408909, 62>>, <<151942524, 510283128, 51>>, <<489540639, 474274576, 59>>, <<245320919, 516657089, 14>>>>>>
   >>,
   <<
     <<<<<<158259282, 375492208, 58>>, <<1196853, 390495427, 20>>, <<209613360, 99662861, 26>>, <<386182981, 512119892, 0>>>>,
       <<<<236413551, 96380694, 37>>, <<130185701, 304973565, 23>>, <<198474884, 299637604, 35>>, <<493458094, 249452529, 12>>>>,
       <<<<474951652, 14302216, 53>>, <<130478621, 17624075, 50>>, <<44077857, 512226679, 53>>, <<26706075, 440377588, 7>>>>>>,
     <<<<<<343402654, 29438519, 33>>, <<435166104, 521431608, 59>>, <<154167025, 376796820, 20>>, <<319997507, 190325350, 4>>>>,
       <<<<45633866, 506222308, 37>>, <<327426724, 331942337, 18>>, <<282984130, 410086277, 59>>, <<534126595, 384364005, 14>>>>,
       <<<<409397451, 149384961, 12>>, <<373212493, 66726445, 12>>, <<362809648, 237051635, 22>>, <<62639919, 68370926, 1>>>>>>,
     <<<<<<75276371, 281589145, 62>>, <<513181212, 441760818, 32>>, <<272694424, 433741494, 2>>, <<494638390, 151169850, 28>>>>,
       <<<<249383118, 322469715, 22>>, <<61228757, 482831611, 57>>, <<381904424, 294597006, 37>>, <<504295171, 260591870, 8>>>>,
       <<<<231819984, 13750897, 31>>, <<85715245, 441577839, 26>>, <<333748405, 465890975, 12>>, <<114951766, 452377742, 10>>>>>>,
     <<<<<<13540825, 205737395, 34>>, <<286376796, 413773533, 0>>, <<198223790, 309204551, 15>>, <<521087914, 245941569, 0>>>>,
       <<<<446339564, 413853583, 6>>, <<391945888, 236299093, 6>>, <<246229689, 406344008, 19>>, <<28969356, 345153974, 19>>>>,
       <<<<535455494, 330422563, 30>>, <<173426190, 18328513, 28>>, <<243571390, 55088648, 49>>, <<225813548, 248088434, 24>>>>>>,
     <<<<<<373983666, 88405549, 35>>, <<391741, 335135896, 50>>, <<178768563, 171197303, 0>>, <<21628082, 181622665, 0>>>>,
       <<<<73252052, 359430246, 60>>, <<12393166, 41632247, 52>>, <<270464281, 11582345, 22>>, <<227784161, 159471421, 22>>>>,
       <<<<342411001, 310728492, 22>>, <<204894852, 187767064, 61>>, <<373367236, 309580365, 24>>, <<388930056, 513482790, 4>>>>>>,
     <<<<<<35566762, 347118635, 25>>, <<355689817, 355006813, 27>>, <<350978486, 132736145, 47>>, <<516297420, 139726208, 4>>>>,
       <<<<260495556, 245083956, 17>>, <<330116596, 525294825, 6>>, <<184200237, 146505356, 30>>, <<531648703, 316261843, 5>>>>,
       <<<<478540008, 129710052, 43>>, <<424047096, 84443409, 21>>, <<491419770, 170160537, 16>>, <<474511899, 209179356, 15>>>>>>,
     <<<<<<66878150, 481855584, 11>>, <<172623082, 223703679, 28>>, <<266031896, 178954804, 54>>, <<162099230, 27658519, 13>>>>,
       <<<<433672466, 306957186, 28>>, <<363497648, 296908824, 15>>, <<113229191, 397295496, 2>>, <<209595593, 133414041, 12>>>>,
       <<<<353111101, 247821844, 59>>, <<57595499, 261270350, 30>>, <<133915201, 317426180, 40>>, <<517439719, 456995100, 8>>>>>>,
     <<<<<<413450400, 82950815, 4>>, <<479568938, 276429792, 15>>, <<185919325, 304287281, 36>>, <<113664733, 26651540, 2>>>>,
       <<<<258110195, 160733110, 40>>, <<189274497, 427517956, 1>>, <<99804526, 180789195, 14>>, <<175484832, 81915700, 21>>>>,
       <<<<261097122, 280040599, 3>>, <<535114661, 283948890, 11>>, <<281124888, 136289991, 1>>, <<126776203, 109470617, 29>>>>>>
   >>,
   <<
     <<<<<<241362285, 67440851, 60>>, <<507674009, 531986008, 40>>, <<381898867, 415195, 14>>, <<154402034, 382313967, 20>>>>,
       <<<<210582622, 25873283, 50>>, <<69749555, 522592883, 8>>, <<2635868, 399845785, 51>>, <<306827487, 229087908, 14>>>>,
       <<<<164377650, 362610668, 19>>, <<11461596, 311947109, 7>>, <<261332399, 20656367, 28>>, <<447161961, 276930806, 2>>>>>>,
     <<<<<<15084904, 331017663, 38>>, <<186865221, 141308838, 45>>, <<322301737, 247687462, 58>>, <<283656416, 127986949, 6>>>>,
       <<<<307161282, 300086392, 22>>, <<254566529, 137417729, 12>>, <<106780206, 202067135, 63>>, <<444879766, 47771567, 28>>>>,
       <<<<251860382, 530783306, 18>>, <<345572716, 127024444, 41>>, <<395064351, 263423277, 43>>, <<380273035, 389839576, 26>>>>>>,
     <<<<<<519751209, 31119245, 6>>, <<332195355, 485156727, 26>>, <<76150544, 369914765, 55>>, <<291307673, 157019817, 3>>>>,
       <<<<316743340, 31735873, 11>>, <<139083982, 242491829, 49>>, <<157462483, 151043748, 28>>, <<193218794, 443127185, 12>>>>,
       <<<<240051446, 284798273, 18>>, <<331225997, 9789166, 38>>, <<10107688, 30325081, 19>>, <<216188206, 252841374, 2>>>>>>,
     <<<<<<247851072, 326364585, 24>>, <<193799201, 464458673, 59>>, <<477276594, 315335182, 58>>, <<74636307, 49750519, 10>>>>,
       <<<<223998163, 149517593, 40>>, <<66625456, 273614367, 31>>, <<375053531, 132176275, 35>>, <<320592643, 467677774, 28>>>>,
       <<<<393212031, 28630541, 44>>, <<403232236, 148174935, 6>>, <<316382667, 314632972, 12>>, <<422570711, 391483665, 19>>>>>>,
     <<<<<<73229389, 174036992, 24>>, <<359719408, 355706951, 15>>, <<267635646, 260976518, 62>>, <<298943206, 149492797, 7>>>>,
       <<<<431032629, 512884704, 49>>, <<417775114, 310225681, 55>>, <<76613189, 432346381, 13>>, <<282048919, 428958792, 17>>>>,
       <<<<203203338, 507296967, 0>>, <<256529032, 41207311, 7>>, <<197965760, 126726580, 58>>, <<164942909, 103953998, 22>>>>>>,
     <<<<<<361687500, 362444966, 43>>, <<437702429, 306731360, 63>>, <<430750182, 370440183, 10>>, <<315262331, 40437516, 10>>>>,
       <<<<360709891, 164721676, 30>>, <<529690035, 310178085, 33>>, <<490916983, 308498318, 23>>, <<219064714, 154268062, 20>>>>,
       <<<<326931179, 385989490, 55>>, <<302878617, 83611601, 47>>, <<247570244, 196102658, 48>>, <<340822468, 385859724, 16>>>>>>,
     <<<<<<115509618, 33981300, 13>>, <<38993279, 530331425, 9>>, <<128264480, 500316590, 3>>, <<385929717, 495574839, 10>>>>,
       <<<<300249084, 415780288, 38>>, <<148268972, 288046123, 10>>, <<151850564, 433078567, 50>>, <<487924307, 3027727, 31>>>>,
       <<<<296196134, 466496240, 3>>, <<167964420, 157155060, 51>>, <<443749638, 436900944, 43>>, <<288938960, 533750217, 27>>>>>>,
     <<<<<<165366432, 393027488, 60>>, <<26413168, 225749229, 30>>, <<473696571, 276601764, 53>>, <<273704372, 122908210, 5>>>>,
       <<<<197455301, 104341552, 39>>, <<435403898, 494960791, 52>>, <<56525230, 174204208, 31>>, <<315929439, 27791216, 18>>>>,
       <<<<429500904, 112470716, 59>>, <<376014066, 26900118, 7>>, <<71597048, 291345963, 7>>, <<43409277, 181283140, 9>>>>>>
   >>,
   <<
     <<<<<<267313230, 457131965, 26>>, <<464236263, 11336695, 29>>, <<269163105, 391490932, 36>>, <<41326029, 17242860, 6>>>>,
       <<<<330590912, 166767765, 59>>, <<34694409, 50790749, 51>>, <<84240142, 111161175, 30>>, <<4477768, 121063095, 21>>>>,
       <<<<212562084, 533449703, 1>>, <<261797271, 396254678, 21>>, <<263586094, 152724205, 35>>, <<167923005, 19854752, 2>>>>>>,
     <<<<<<188741800, 91646335, 53>>, <<107195200, 78617205, 61>>, <<252737835, 534776115, 54>>, <<495163130, 20752515, 20>>>>,
       <<<<343471786, 130282693, 10>>, <<204971489, 302282551, 5>>, <<40466799, 326201612, 40>>, <<76888228, 262353244, 27>>>>,
       <<<<410376243, 5303540, 25>>, <<515020568, 371479914, 46>>, <<129412632, 351334598, 44>>, <<20744975, 365161567, 20>>>>>>,
     <<<<<<98308653, 79340884, 35>>, <<130558056, 60550818, 57>>, <<72508570, 102475958, 15>>, <<251708212, 275873351, 4>>>>,
       <<<<375065265, 468244988, 7>>, <<241893686, 400932312, 30>>, <<316314289, 52187305, 61>>, <<159483238, 388863913, 23>>>>,
       <<<<7288405, 56646821, 5>>, <<292338077, 519877568, 49>>, <<296583400, 459273076, 34>>, <<266795122, 17316725, 1>>>>>>,
     <<<<<<41551975, 224595256, 32>>, <<330761026, 407727464, 54>>, <<366774928, 374981407, 11>>, <<284017742, 324621260, 0>>>>,
       <<<<28409125, 402424494, 25>>, <<286072631, 528769875, 42>>, <<505213717, 207509599, 60>>, <<504083710, 376000446, 1>>>>,
       <<<<249486049, 435618907, 43>>, <<114486934, 89357018, 5>>, <<429543753, 316153948, 35>>, <<206343531, 166280344, 25>>>>>>,
     <<<<<<396072220, 319736390, 4>>, <<415278073, 258607553, 18>>, <<54841209, 370283922, 59>>, <<300971801, 173589768, 25>>>>,
       <<<<265859009, 312238089, 62>>, <<363728327, 400129233, 7>>, <<7342217, 401850900, 25>>, <<250186788, 114569523, 18>>>>,
       <<<<72515563, 463510800, 52>>, <<235584364, 238575098, 14>>, <<511793657, 483205848, 46>>, <<120972840, 489634103, 9>>>>>>,
     <<<<<<38700462, 59344315, 38>>, <<91623819, 291096127, 28>>, <<422946771, 61669999, 41>>, <<279752603, 17513365, 22>>>>,
       <<<<286397122, 478099819, 20>>, <<159040847, 464111962, 4>>, <<242556538, 141043548, 26>>, <<462291187, 267613266, 14>>>>,
       <<<<38655511, 167363045, 8>>, <<510728325, 359370166, 16>>, <<264375614, 314169477, 9>>, <<223244523, 41537586, 23>>>>>>,
     <<<<<<193418772, 116777945, 57>>, <<331927152, 359410888, 60>>, <<281921782, 401668782, 12>>, <<185801544, 386963351, 4>>>>,
       <<<<443440359, 334679736, 44>>, <<295987286, 490736783, 50>>, <<291707917, 382714357, 8>>, <<53294020, 89214437, 12>>>>,
       <<<<418115383, 486021787, 7>>, <<117641604, 468048030, 39>>, <<121976379, 273930393, 49>>, <<178529196, 350650916, 12>>>>>>,
     <<<<<<173909251, 387149648, 27>>, <<203499463, 113963250, 35>>, <<459618484, 44203868, 9>>, <<403496648, 496289851, 17>>>>,
       <<<<32078768, 122191315, 61>>, <<316814370, 88166660, 56>>, <<484232985, 154760099, 12>>, <<48663606, 118985387, 18>>>>,
       <<<<92205155, 303777479, 58>>, <<186493120, 486513548, 9>>, <<494488013, 111328311, 11>>, <<370770837, 313466615, 9>>>>>>
   >>,
   <<
     <<<<<<532441403, 37610044, 56>>, <<278931151, 415407282, 63>>, <<129164878, 165556211, 62>>, <<224759824, 462577753, 31>>>>,
       <<<<72221975, 242899088, 4>>, <<494871452, 488837888, 24>>, <<455594133, 527414441, 2>>, <<420364993, 242110400, 12>>>>,
       <<<<143184088, 257172366, 47>>, <<4733508, 212747090, 37>>, <<389643916, 524991242, 28>>, <<47907155, 461186290, 17>>>>>>,
     <<<<<<37429376, 496964426, 44>>, <<469433370, 37814527, 20>>, <<91447151, 306135019, 35>>, <<149934516, 318779731, 16>>>>,
       <<<<214805812, 456263009, 21>>, <<366407943, 157105215, 61>>, <<291192707, 529561040, 9>>, <<13543386, 15616908, 8>>>>,
       <<<<94580348, 386448902, 9>>, <<171997180, 109301096, 46>>, <<40102699, 463666868, 21>>, <<422624122, 359580842, 6>>>>>>,
     <<<<<<222706060, 201812765, 52>>, <<434590984, 373296758, 61>>, <<500637590, 471724796, 13>>, <<271144647, 342076387, 14>>>>,
       <<<<441048570, 477729585, 52>>, <<374462561, 385225575, 60>>, <<486732738, 162468915, 1>>, <<202858889, 510526664, 1>>>>,
       <<<<230667801, 304178960, 20>>, <<438049100, 481657587, 33>>, <<81324268, 5678247, 3>>, <<495692514, 521018478, 8>>>>>>,
     <<<<<<69743448, 261715267, 31>>, <<433147096, 196285122, 12>>, <<34436208, 350049193, 60>>, <<342509231, 66748595, 1>>>>,
       <<<<418785188, 85020253, 10>>, <<80096951, 1492471, 63>>, <<65135413, 495649897, 30>>, <<455298286, 48393749, 0>>>>,
       <<<<342848872, 154629593, 48>>, <<95694481, 26285185, 57>>, <<247786290, 340999989, 54>>, <<129690267, 484484765, 8>>>>>>,
     <<<<<<379355483, 258297066, 36>>, <<394374215, 319518523, 12>>, <<133208026, 345361987, 2>>, <<41052616, 295316789, 29>>>>,
       <<<<54321676, 189491669, 16>>, <<422627064, 418340706, 28>>, <<371455365, 360430738, 6>>, <<68805466, 31564081, 4>>>>,
       <<<<490488070, 220413061, 39>>, <<9674571, 497560266, 62>>, <<105346749, 95524510, 53>>, <<130359711, 273061909, 14>>>>>>,
     <<<<<<207141594, 510366964, 10>>, <<432623745, 29672807, 45>>, <<259496698, 290960104, 48>>, <<46537927, 455516617, 3>>>>,
       <<<<483320877, 362181834, 41>>, <<270366858, 288584149, 0>>, <<241267268, 221365427, 54>>, <<499161727, 273520083, 31>>>>,
       <<<<5318724, 60461904, 23>>, <<98845018, 235363336, 51>>, <<415939248, 530526831, 10>>, <<65450544, 192291479, 23>>>>>>,
     <<<<<<211589155, 386556753, 16>>, <<268119286, 502847073, 17>>, <<427505437, 347244715, 3>>, <<302207888, 115885254, 12>>>>,
       <<<<454749817, 237329858, 21>>, <<456527838, 192921011, 32>>, <<526084291, 357304738, 16>>, <<105107258, 308586483, 4>>>>,
       <<<<189450251, 256017348, 52>>, <<490692292, 149794226, 32>>, <<322705795, 264595704, 47>>, <<502036083, 411092018, 26>>>>>>,
     <<<<<<468796139, 421189585, 44>>, <<373797065, 61078941, 40>>, <<366660206, 464636998, 52>>, <<314996262, 455154637, 15>>>>,
       <<<<77228824, 170282253, 42>>, <<310972794, 124772378, 23>>, <<33164817, 498474559, 17>>, <<114215832, 496871593, 22>>>>,
       <<<<248584026, 226114812, 51>>, <<369157769, 205288925, 2>>, <<290213852, 87179070, 36>>, <<483249898, 380361868, 29>>>>>>
   >>,
   <<
     <<<<<<374785873, 15471358, 11>>, <<172356674, 115150752, 37>>, <<67658477, 209281260, 5>>, <<123330005, 223422358, 5>>>>,
       <<<<362733338, 485086603, 11>>, <<123654236, 531161426, 62>>, <<45758796, 51352773, 32>>, <<185854632, 202614684, 18>>>>,
       <<<<359550591, 39867209, 47>>, <<94662277, 275688702, 7>>, <<482140933, 138381311, 59>>, <<504818505, 295925941, 8>>>>>>,
     <<<<<<473007079, 241918747, 9>>, <<28214804, 71619781, 4>>, <<314391446, 312580885, 26>>, <<294795689, 379128313, 11>>>>,
       <<<<168600399, 116184442, 10>>, <<300868522, 261845296, 6>>, <<37735601, 244767577, 50>>, <<497180337, 322564543, 13>>>>,
       <<<<257298789, 173218339, 3>>, <<500633596, 68795358, 55>>, <<111979527, 45494498, 17>>, <<332371540, 63597311, 11>>>>>>,
     <<<<<<411526907, 225022717, 9>>, <<51778718, 87266529, 54>>, <<176528732, 420430171, 6>>, <<204317752, 199548048, 13>>>>,
       <<<<116629300, 70991534, 61>>, <<465517394, 269336188, 10>>, <<520137921, 19229742, 30>>, <<335154971, 500737810, 10>>>>,
       <<<<82007108, 142608660, 38>>, <<95077561, 192993357, 58>>, <<504992847, 260626572, 48>>, <<106389703, 8165100, 14>>>>>>,
     <<<<<<509567104, 342088549, 19>>, <<442494450, 287841177, 16>>, <<371667051, 64410762, 36>>, <<139112232, 136933121, 30>>>>,
       <<<<305182317, 245548003, 56>>, <<252892222, 469866554, 30>>, <<442389198, 126621823, 44>>, <<518129140, 405949182, 21>>>>,
       <<<<230698257, 284960014, 1>>, <<287397374, 20589789, 29>>, <<236013987, 72376269, 13>>, <<170358902, 443445996, 17>>>>>>,
     <<<<<<249094007, 398094165, 49>>, <<87629788, 118402268, 57>>, <<238316488, 312723196, 8>>, <<243179119, 431296612, 6>>>>,
       <<<<497782861, 250303039, 31>>, <<234653319, 436618671, 61>>, <<296395231, 302302537, 26>>, <<530169324, 138679212, 20>>>>,
       <<<<425608714, 418405647, 51>>, <<448968221, 459840498, 37>>, <<341048779, 316718137, 25>>, <<506239266, 94278554, 8>>>>>>,
     <<<<<<476530679, 184064407, 24>>, <<339766038, 94370899, 29>>, <<396044151, 79280632, 30>>, <<96430459, 315411907, 6>>>>,
       <<<<461050752, 284062881, 44>>, <<121320565, 343307520, 11>>, <<285082434, 221056012, 3>>, <<288002613, 81980920, 15>>>>,
       <<<<54586214, 387336122, 57>>, <<381866921, 403194483, 57>>, <<205538369, 366089989, 29>>, <<385823474, 98300344, 2>>>>>>,
     <<<<<<79398748, 239307301, 59>>, <<377102417, 66007210, 51>>, <<258720717, 81084411, 4>>, <<422871899, 497613139, 3>>>>,
       <<<<231616708, 314422081, 22>>, <<424854080, 394209234, 5>>, <<368355042, 356422667, 7>>, <<331263898, 66119985, 17>>>>,
       <<<<159619701, 43189863, 12>>, <<411774571, 50468568, 40>>, <<464306506, 147650703, 60>>, <<190611560, 482259972, 9>>>>>>,
     <<<<<<463330076, 414409846, 18>>, <<503926276, 404086443, 60>>, <<433785668, 495348967, 45>>, <<346191680, 289826172, 6>>>>,
       <<<<173483818, 318425350, 8>>, <<204208054, 491811140, 11>>, <<457605708, 410627252, 52>>, <<194477013, 290591378, 8>>>>,
       <<<<267730622, 88863554, 18>>, <<407481979, 168145490, 9>>, <<60042784, 372927145, 36>>, <<34884059, 48394904, 2>>>>>>
   >>,
   <<
     <<<<<<220395575, 350553849, 46>>, <<382611378, 32684981, 26>>, <<427796699, 98414193, 34>>, <<394700500, 525027175, 2>>>>,
       <<<<193729614, 358948134, 7>>, <<304717715, 196076308, 34>>, <<174192522, 160104236, 0>>, <<467380423, 48358229, 4>>>>,
       <<<<60792629, 533380192, 36>>, <<195627060, 352293991, 31>>, <<508755985, 193911984, 36>>, <<103998291, 142949775, 14>>>>>>,
     <<<<<<438146267, 376889063, 35>>, <<128501690, 404097321, 26>>, <<412602082, 184666868, 30>>, <<218800856, 479375893, 19>>>>,
       <<<<159634240, 328072449, 54>>, <<395949002, 245125980, 53>>, <<431687756, 468664989, 58>>, <<12117476, 528294678, 27>>>>,
       <<<<122323669, 324542666, 4>>, <<101322871, 488834884, 8>>, <<58561233, 536842608, 24>>, <<359779059, 48877176, 0>>>>>>,
     <<<<<<356801939, 420518871, 53>>, <<38510077, 404350822, 6>>, <<322217768, 310119472, 11>>, <<176974099, 145094559, 14>>>>,
       <<<<239323243, 79324025, 43>>, <<48320879, 385802061, 28>>, <<484068497, 90762627, 34>>, <<332840057, 211871993, 0>>>>,
       <<<<520510611, 9467678, 9>>, <<95524928, 197553462, 6>>, <<18106756, 259990580, 58>>, <<51612834, 394569121, 16>>>>>>,
     <<<<<<303440552, 385806112, 53>>, <<135807212, 320877491, 23>>, <<451178441, 282434203, 16>>, <<19687206, 54302542, 15>>>>,
       <<<<382608557, 168540876, 23>>, <<412474558, 465511411, 25>>, <<165341424, 11972282, 54>>, <<162842317, 117453424, 7>>>>,
       <<<<413421236, 381267512, 34>>, <<236320835, 169112238, 53>>, <<405241090, 110979679, 25>>, <<362806297, 28133405, 0>>>>>>,
     <<<<<<484901901, 388888666, 62>>, <<12410388, 270517553, 38>>, <<368726997, 315469624, 26>>, <<223328999, 395027800, 31>>>>,
       <<<<248167438, 126041990, 5>>, <<187795569, 436698210, 54>>, <<405321116, 528279373, 10>>, <<501461137, 358583568, 9>>>>,
       <<<<458403676, 432231378, 59>>, <<247655884, 346621, 41>>, <<167202112, 254218499, 59>>, <<221254902, 212484796, 29>>>>>>,
     <<<<<<232352773, 531614865, 46>>, <<400327629, 12610844, 59>>, <<108476825, 421501897, 56>>, <<330698884, 425741088, 8>>>>,
       <<<<225644354, 76534770, 45>>, <<270512104, 483696759, 42>>, <<326559894, 496154895, 20>>, <<144088869, 526635943, 27>>>>,
       <<<<352858467, 353303240, 9>>, <<471395851, 26734036, 46>>, <<253015147, 3484143, 3>>, <<240694216, 382513324, 16>>>>>>,
     <<<<<<493535425, 535990449, 30>>, <<26868198, 139502009, 38>>, <<436587470, 453669940, 54>>, <<188318704, 98330913, 22>>>>,
       <<<<153539701, 50428723, 57>>, <<49280961, 121399984, 52>>, <<519890608, 251379657, 59>>, <<497258316, 223697549, 23>>>>,
       <<<<279374401, 180556947, 6>>, <<219533915, 382551376, 61>>, <<336964985, 256213280, 52>>, <<490314613, 520218441, 9>>>>>>,
     <<<<<<105079421, 282209552, 59>>, <<105542440, 215953191, 34>>, <<304029276, 277601589, 12>>, <<494003844, 273007370, 20>>>>,
       <<<<81762230, 119857858, 42>>, <<24114387, 308213140, 36>>, <<473985577, 536806001, 31>>, <<92063561, 152411963, 18>>>>,
       <<<<90323418, 535211544, 39>>, <<9040410, 38041528, 62>>, <<367223383, 194855299, 41>>, <<373522438, 504908377, 7>>>>>>
   >>,
   <<
     <<<<<<453133952, 274985960, 51>>, <<432328430, 72775373, 5>>, <<264857685, 310170670, 27>>, <<63245546, 467008442, 20>>>>,
       <<<<471140079, 375927589, 42>>, <<356041154, 343357131, 10>>, <<418877894, 495589740, 47>>, <<481931422, 19570137, 10>>>>,
       <<<<189003727, 313307989, 33>>, <<306018493, 100877704, 42>>, <<128782899, 386230481, 48>>, <<249370676, 17191158, 24>>>>>>,
     <<<<<<288773477, 210099470, 9>>, <<306535399, 513462417, 40>>, <<33416433, 209010152, 57>>, <<201353228, 191153418, 18>>>>,
       <<<<32892491, 251902697, 56>>, <<326454871, 366113392, 17>>, <<238806627, 132798392, 59>>, <<457316871, 276989797, 2>>>>,
       <<<<161197214, 52026983, 32>>, <<421351997, 418465026, 43>>, <<296745418, 274768211, 8>>, <<28102665, 222185669, 19>>>>>>,
     <<<<<<306983759, 255639746, 38>>, <<279946284, 343789384, 4>>, <<149912187, 235579649, 21>>, <<399315451, 533088085, 27>>>>,
       <<<<76186783, 426787446, 7>>, <<385135797, 121367108, 7>>, <<196057104, 61575422, 4>>, <<529110743, 242048169, 20>>>>,
       <<<<370591796, 108744910, 48>>, <<266650257, 34516453, 37>>, <<181007774, 487967233, 61>>, <<449289061, 137447849, 0>>>>>>,
     <<<<<<404842043, 80199015, 29>>, <<118040027, 291664502, 37>>, <<392408267, 388204074, 21>>, <<184640134, 347338793, 24>>>>,
       <<<<258764254, 509662178, 14>>, <<238965302, 63613927, 25>>, <<300996666, 88683378, 53>>, <<177773627, 178991384, 0>>>>,
       <<<<305937382, 444849793, 48>>, <<120602191, 252809372, 55>>, <<419268836, 207595671, 53>>, <<405128125, 334362092, 25>>>>>>,
     <<<<<<197457801, 169502474, 60>>, <<262900870, 230372807, 5>>, <<375699560, 219095391, 56>>, <<27696482, 209007345, 11>>>>,
       <<<<474856191, 181466546, 14>>, <<238382656, 320492390, 42>>, <<527541839, 51292380, 23>>, <<478390706, 315721900, 2>>>>,
       <<<<101011347, 468490327, 54>>, <<474408562, 154941614, 39>>, <<431281026, 201664044, 34>>, <<204248808, 509860937, 5>>>>>>,
     <<<<<<128602999, 407550225, 5>>, <<350612463, 335084482, 31>>, <<448900848, 452863029, 25>>, <<330343082, 369200039, 19>>>>,
       <<<<445108011, 307404082, 1>>, <<122096016, 209703590, 43>>, <<18352051, 145436806, 51>>, <<201545084, 162236711, 7>>>>,
       <<<<348667437, 367749654, 12>>, <<148670385, 138060502, 35>>, <<261773940, 339245039, 49>>, <<393818105, 103691170, 5>>>>>>,
     <<<<<<84980463, 233425832, 16>>, <<99073275, 514596560, 7>>, <<463230776, 140040989, 10>>, <<30665710, 244882528, 13>>>>,
       <<<<402359897, 172614991, 5>>, <<478853179, 237446313, 9>>, <<408151989, 274798056, 50>>, <<112095810, 316842241, 6>>>>,
       <<<<28613009, 163295958, 56>>, <<299564926, 379604861, 58>>, <<307827385, 172927594, 20>>, <<53415477, 123252597, 30>>>>>>,
     <<<<<<419147633, 347527018, 57>>, <<190329594, 503207740, 58>>, <<530905154, 291274664, 34>>, <<320181662, 281860228, 19>>>>,
       <<<<163344320, 349122723, 12>>, <<84398682, 460131812, 30>>, <<461434157, 227639271, 28>>, <<428578258, 324521055, 14>>>>,
       <<<<334292279, 29332817, 53>>, <<362071579, 103674324, 39>>, <<299249949, 162800203, 27>>, <<66383046, 196030741, 25>>>>>>
   >>,
   <<
     <<<<<<430594824, 218248825, 1>>, <<232009143, 28100941, 48>>, <<86790403, 261679117, 27>>, <<80801686, 485451639, 2>>>>,
       <<<<330727643, 197139564, 2>>, <<56772152, 518187798, 60>>, <<418086356, 203442797, 10>>, <<220126153, 371453925, 27>>>>,
       <<<<522991974, 222313595, 37>>, <<169643104, 56189115, 11>>, <<78880112, 464821819, 60>>, <<416240012, 461845582, 16>>>>>>,
     <<<<<<254640544, 481213834, 40>>, <<331776547, 245902912, 39>>, <<186769299, 299990298, 33>>, <<113360265, 485075050, 31>>>>,
       <<<<394999688, 54703429, 8>>, <<265663839, 104385100, 2>>, <<270959687, 529365074, 7>>, <<326152499, 33652948, 22>>>>,
       <<<<245284860, 530125029, 30>>, <<75560699, 379802967, 50>>, <<211169692, 53862593, 13>>, <<388536383, 54785972, 22>>>>>>,
     <<<<<<341582760, 315776121, 51>>, <<322067943, 39176357, 52>>, <<427630741, 305634457, 43>>, <<149079276, 408166669, 8>>>>,
       <<<<420026832, 23409771, 28>>, <<409347790, 258973243, 35>>, <<128240955, 93610494, 13>>, <<369413172, 172511360, 17>>>>,
       <<<<391958551, 306210562, 23>>, <<184657495, 387728436, 10>>, <<315398518, 431477765, 1>>, <<182791935, 254293154, 7>>>>>>,
     <<<<<<258343126, 295844570, 51>>, <<321012919, 49417910, 30>>, <<264065009, 146167165, 57>>, <<116998432, 446877710, 25>>>>,
       <<<<506376530, 62965488, 8>>, <<133709104, 133311739, 35>>, <<159898274, 6354568, 51>>, <<390564326, 415726454, 10>>>>,
       <<<<417687809, 196417579, 37>>, <<306607937, 415321110, 40>>, <<83397935, 75881749, 50>>, <<169234993, 322446529, 4>>>>>>,
     <<<<<<519669177, 524191063, 7>>, <<454793042, 198990392, 26>>, <<306805794, 193041273, 22>>, <<422027584, 308585116, 26>>>>,
       <<<<511926403, 530727895, 3>>, <<247728249, 387031253, 22>>, <<390485919, 165684217, 48>>, <<84110245, 122916618, 8>>>>,
       <<<<301403415, 163105437, 30>>, <<154140405, 440898271, 53>>, <<146777780, 284118255, 23>>, <<7241653, 74292091, 9>>>>>>,
     <<<<<<141374023, 398535227, 46>>, <<334566437, 344502973, 29>>, <<264093138, 148016612, 48>>, <<461424051, 333112002, 25>>>>,
       <<<<66394442, 64406775, 19>>, <<520842700, 257418033, 60>>, <<100428963, 271252811, 21>>, <<70218326, 63759171, 17>>>>,
       <<<<210581973, 235839622, 24>>, <<261686845, 211742727, 53>>, <<37468209, 83151982, 56>>, <<360957260, 204810763, 26>>>>>>,
     <<<<<<374169551, 363187477, 13>>, <<75519040, 369019889, 4>>, <<73915432, 246665291, 37>>, <<106946221, 382705536, 1>>>>,
       <<<<284992521, 19978435, 0>>, <<106277293, 414572698, 47>>, <<105021381, 488672399, 56>>, <<134985820, 397006076, 28>>>>,
       <<<<285520296, 362541307, 39>>, <<282781109, 123253245, 16>>, <<161619341, 519573768, 33>>, <<284217581, 177451108, 16>>>>>>,
     <<<<<<417840294, 388072843, 30>>, <<326577145, 103946340, 2>>, <<235084476, 478450196, 34>>, <<369311719, 457485687, 22>>>>,
       <<<<496131153, 328767080, 11>>, <<47698012, 22932273, 55>>, <<97531931, 321887138, 57>>, <<154928351, 340848964, 7>>>>,
       <<<<478847650, 162831941, 2>>, <<507256069, 395459955, 26>>, <<260820438, 452385699, 38>>, <<232002604, 466902561, 21>>>>>>
   >>,
   <<
     <<<<<<405641119, 465240044, 18>>, <<72010588, 266658486, 58>>, <<57339538, 64272157, 62>>, <<496828490, 509217346, 26>>>>,
       <<<<103569262, 417226042, 8>>, <<368582866, 129797102, 23>>, <<348141765, 102196571, 28>>, <<413258835, 476963818, 5>>>>,
       <<<<84963447, 476766476, 62>>, <<309884451, 239965748, 62>>, <<393312104, 500442785, 57>>, <<236278256, 386988247, 31>>>>>>,
     <<<<<<329206668, 165718384, 11>>, <<254246602, 366680677, 6>>, <<261209759, 482041876, 33>>, <<23758156, 289333366, 0>>>>,
       <<<<71232728, 374970774, 48>>, <<98052522, 71199941, 57>>, <<395328728, 461518819, 56>>, <<449208471, 467435609, 31>>>>,
       <<<<344191459, 125592342, 56>>, <<119943596, 516742263, 42>>, <<419487140, 163648722, 25>>, <<236482199, 501614846, 31>>>>>>,
     <<<<<<343589853, 175144897, 13>>, <<2647151, 10364216, 33>>, <<519482867, 318661973, 7>>, <<235105144, 312918284, 12>>>>,
       <<<<299534836, 215173350, 16>>, <<479188076, 81380178, 56>>, <<449339033, 181732571, 2>>, <<197291226, 154668495, 1>>>>,
       <<<<230593667, 449796741, 37>>, <<178077978, 47438467, 54>>, <<80883363, 89864462, 14>>, <<118233654, 476705835, 16>>>>>>,
     <<<<<<275816975, 271635784, 57>>, <<81307808, 362173468, 1>>, <<273592219, 198543468, 51>>, <<280734441, 296154077, 31>>>>,
       <<<<71556348, 203208363, 26>>, <<533901687, 77112342, 32>>, <<7846725, 491831307, 25>>, <<58015566, 284111301, 21>>>>,
       <<<<41161894, 532897708, 32>>, <<396917182, 57434260, 34>>, <<193711211, 88516236, 61>>, <<290869902, 493513164, 29>>>>>>,
     <<<<<<300720735, 480727982, 28>>, <<3954639, 376972546, 49>>, <<63131137, 345332201, 8>>, <<390503826, 179198467, 0>>>>,
       <<<<396419929, 243531824, 49>>, <<109018573, 310241028, 56>>, <<509775439, 468262336, 9>>, <<279173093, 87590539, 25>>>>,
       <<<<250775245, 512895511, 61>>, <<131911972, 107514168, 36>>, <<210729836, 136608887, 31>>, <<354639258, 225827631, 13>>>>>>,
     <<<<<<255595153, 65340508, 60>>, <<28613481, 127580624, 30>>, <<142500771, 36502155, 8>>, <<32413855, 468589168, 2>>>>,
       <<<<369519818, 22894003, 17>>, <<241700573, 298545597, 44>>, <<128014907, 470131794, 21>>, <<43235754, 193777626, 1>>>>,
       <<<<433783985, 37250652, 37>>, <<206958745, 334613203, 4>>, <<80275487, 4710324, 41>>, <<129525818, 503811630, 7>>>>>>,
     <<<<<<260826130, 191757525, 1>>, <<195120338, 316968719, 46>>, <<100431227, 368114223, 58>>, <<107965982, 189762381, 1>>>>,
       <<<<527226879, 507789105, 47>>, <<305316773, 292741764, 10>>, <<92676994, 15072073, 53>>, <<41583817, 21249796, 10>>>>,
       <<<<431428165, 472923924, 45>>, <<26798060, 293304423, 14>>, <<83328782, 190575616, 30>>, <<410849119, 166745647, 18>>>>>>,
     <<<<<<388553914, 445267730, 27>>, <<438763339, 375770957, 3>>, <<60564564, 151101486, 44>>, <<146010058, 459313639, 9>>>>,
       <<<<390872273, 409334024, 62>>, <<157621027, 288061265, 52>>, <<94852709, 218431237, 19>>, <<66561972, 356246004, 6>>>>,
       <<<<274918577, 462345353, 31>>, <<362862684, 13941747, 10>>, <<352006814, 2273474, 49>>, <<43815350, 11946824, 22>>>>>>
   >>,
   <<
     <<<<<<309360818, 384941787, 37>>, <<308196681, 327613606, 0>>, <<473791348, 409312081, 11>>, <<437479472, 460422522, 17>>>>,
       <<<<508695573, 5179018, 47>>, <<281222892, 361480774, 29>>, <<20217155, 455013091, 21>>, <<395204390, 60247773, 18>>>>,
       <<<<166545194, 290389849, 42>>, <<307559200, 124812208, 61>>, <<28034321, 505190636, 23>>, <<453926201, 382841156, 24>>>>>>,
     <<<<<<88076786, 443889526, 25>>, <<456197912, 206410073, 21>>, <<428297388, 224738798, 41>>, <<420025583, 275786684, 11>>>>,
       <<<<413646791, 83929852, 21>>, <<122059304, 157271922, 28>>, <<299130690, 384783660, 35>>, <<384153757, 98500237, 20>>>>,
       <<<<490532286, 471887603, 38>>, <<19901657, 19006587, 44>>, <<239178307, 32102806, 33>>, <<516250333, 194536673, 25>>>>>>,
     <<<<<<204340664, 71694610, 12>>, <<415963291, 327227561, 63>>, <<169003045, 246468899, 16>>, <<231874226, 362900217, 30>>>>,
       <<<<161632663, 393206441, 17>>, <<437100604, 371436242, 15>>, <<84510384, 449031773, 43>>, <<199204609, 134440044, 3>>>>,
       <<<<363919705, 441984207, 13>>, <<83862697, 284442275, 42>>, <<494613172, 499766337, 27>>, <<299397973, 223651544, 2>>>>>>,
     <<<<<<286736895, 387734259, 62>>, <<335856352, 279948391, 22>>, <<168994135, 309762268, 61>>, <<180900617, 97232916, 11>>>>,
       <<<<384363148, 63139678, 35>>, <<132157320, 511566371, 50>>, <<411712205, 483100609, 48>>, <<317005056, 114745449, 15>>>>,
       <<<<239582207, 525512835, 1>>, <<371632084, 174803538, 19>>, <<429589018, 7124370, 56>>, <<137338349, 502952534, 25>>>>>>,
     <<<<<<447302911, 119607540, 46>>, <<234222955, 255126643, 17>>, <<416434739, 38348411, 16>>, <<279074532, 84654866, 3>>>>,
       <<<<197171223, 161296113, 44>>, <<81194503, 21511398, 27>>, <<167636195, 279340729, 17>>, <<389138214, 107277156, 6>>>>,
       <<<<387032265, 380718182, 15>>, <<108339017, 275576388, 5>>, <<312346769, 351507024, 42>>, <<125625658, 136942789, 5>>>>>>,
     <<<<<<504249501, 483945268, 57>>, <<219864605, 511374001, 37>>, <<342283093, 60916646, 44>>, <<385158409, 360124013, 0>>>>,
       <<<<469537761, 383667711, 37>>, <<199775002, 231767064, 27>>, <<145414075, 101437064, 43>>, <<306058998, 333154401, 9>>>>,
       <<<<21409243, 73697779, 54>>, <<463929301, 529087217, 32>>, <<307336772, 15852347, 21>>, <<139792987, 141083100, 2>>>>>>,
     <<<<<<62538203, 426099963, 58>>, <<471190359, 50299358, 49>>, <<139189865, 41459852, 37>>, <<376872269, 166651177, 26>>>>,
       <<<<260154690, 325940602, 60>>, <<404381206, 89124900, 60>>, <<178842072, 404036166, 40>>, <<488665750, 218045873, 22>>>>,
       <<<<212706327, 418800810, 42>>, <<387718144, 269959665, 38>>, <<397569138, 21026680, 41>>, <<273929467, 237247084, 13>>>>>>,
     <<<<<<451145138, 34335282, 40>>, <<60448938, 437918691, 0>>, <<460575423, 127607655, 37>>, <<330419687, 298798114, 16>>>>,
       <<<<288887037, 78283013, 16>>, <<479341991, 90843115, 51>>, <<137983874, 515314489, 63>>, <<356119993, 250643470, 20>>>>,
       <<<<28069625, 196732056, 25>>, <<57565769, 221055049, 37>>, <<318821543, 176668115, 0>>, <<251795981, 12439295, 18>>>>>>
   >>,
   <<
     <<<<<<447254093, 181627778, 20>>, <<369098627, 186744996, 15>>, <<447226138, 8183159, 51>>, <<220680342, 498031767, 7>>>>,
       <<<<531342051, 207808173, 29>>, <<197387080, 149564345, 32>>, <<385603540, 480004968, 54>>, <<355336350, 426112151, 6>>>>,
       <<<<137374806, 221656556, 46>>, <<400771119, 83975801, 59>>, <<151079318, 295429094, 12>>, <<221277032, 234565735, 15>>>>>>,
     <<<<<<331251012, 381233478, 13>>, <<332514088, 144234835, 48>>, <<127320429, 116391734, 1>>, <<234546525, 251359640, 16>>>>,
       <<<<346961021, 50912497, 15>>, <<52512823, 345291160, 27>>, <<91264489, 343216401, 18>>, <<12197035, 148288984, 24>>>>,
       <<<<63224561, 157494324, 12>>, <<147126604, 77924690, 9>>, <<292665202, 53137551, 52>>, <<116929360, 435391171, 17>>>>>>,
     <<<<<<212187251, 446430079, 63>>, <<16669974, 79888711, 62>>, <<530044356, 34296313, 41>>, <<91649882, 88692814, 28>>>>,
       <<<<38159048, 307335403, 56>>, <<506502358, 349730768, 31>>, <<494184100, 124542836, 1>>, <<131740581, 431499638, 28>>>>,
       <<<<70804861, 183490873, 37>>, <<354600373, 362214338, 57>>, <<452217902, 184105705, 19>>, <<176844658, 472850499, 31>>>>>>,
     <<<<<<431557072, 246576821, 16>>, <<393975628, 534504168, 51>>, <<32912555, 75021173, 38>>, <<258135482, 350896631, 3>>>>,
       <<<<326764974, 67219088, 55>>, <<200284186, 362601081, 17>>, <<128130580, 253984613, 57>>, <<477588986, 343815923, 17>>>>,
       <<<<526926062, 140135620, 23>>, <<42834496, 80379574, 37>>, <<25268453, 77595888, 32>>, <<294518513, 290066, 0>>>>>>,
     <<<<<<352670638, 425229733, 2>>, <<204037813, 117295473, 56>>, <<222081878, 111375870, 2>>, <<155355155, 258351755, 12>>>>,
       <<<<534984198, 528384432, 7>>, <<116066025, 352554553, 43>>, <<323430072, 193866976, 47>>, <<390179824, 185742917, 7>>>>,
       <<<<400462231, 4726094, 32>>, <<518814529, 78592739, 61>>, <<41129416, 5875406, 31>>, <<297029683, 267080876, 6>>>>>>,
     <<<<<<34695156, 347284291, 49>>, <<47226213, 481115628, 32>>, <<377180855, 268098459, 20>>, <<478492913, 319641394, 7>>>>,
       <<<<49417995, 270083867, 42>>, <<429898650, 199332032, 1>>, <<428012451, 179565387, 54>>, <<288058963, 453234854, 2>>>>,
       <<<<136267919, 114970894, 29>>, <<489364455, 43143981, 23>>, <<492652834, 32720530, 25>>, <<366426804, 209370377, 28>>>>>>,
     <<<<<<297273076, 526767846, 8>>, <<293339817, 167974895, 46>>, <<426913520, 227949724, 42>>, <<321896538, 209498621, 8>>>>,
       <<<<221478726, 262410307, 22>>, <<369849043, 393555273, 48>>, <<259841985, 284581252, 55>>, <<257199322, 375755308, 26>>>>,
       <<<<46644611, 403279122, 26>>, <<284502181, 313316542, 34>>, <<273175787, 67178600, 17>>, <<143826323, 202491262, 31>>>>>>,
     <<<<<<41114979, 232458755, 54>>, <<378457477, 473649013, 18>>, <<42335394, 40523105, 54>>, <<199684369, 54703081, 9>>>>,
       <<<<377181976, 263648418, 16>>, <<514735450, 416674349, 16>>, <<469079586, 16850342, 56>>, <<24849439, 114159575, 27>>>>,
       <<<<517337903, 406625169, 54>>, <<286760219, 122062429, 30>>, <<348848586, 136526331, 40>>, <<431398381, 411895364, 18>>>>>>
   >>,
   <<
     <<<<<<268026656, 354841432, 27>>, <<52105936, 121007884, 37>>, <<518758113, 126574600, 42>>, <<270387480, 144032232, 9>>>>,
       <<<<454246395, 127035259, 55>>, <<437650465, 499853805, 46>>, <<349337944, 243291391, 4>>, <<182986755, 327122867, 5>>>>,
       <<<<167474869, 182295081, 37>>, <<250132560, 17369440, 38>>, <<493945008, 20784, 8>>, <<306652414, 478553524, 10>>>>>>,
     <<<<<<283667751, 24461894, 5>>, <<452927236, 246005406, 41>>, <<281659865, 261381619, 44>>, <<39327870, 254072511, 0>>>>,
       <<<<512495063, 230249567, 1>>, <<366784986, 9013884, 50>>, <<419635986, 338097060, 10>>, <<454953453, 507213267, 10>>>>,
       <<<<76908053, 97114905, 19>>, <<267453182, 523438867, 8>>, <<246488350, 323644947, 27>>, <<21259217, 453684580, 23>>>>>>,
     <<<<<<387541212, 478472230, 52>>, <<8053098, 481173373, 33>>, <<336549268, 247108379, 1>>, <<359519791, 409983409, 17>>>>,
       <<<<309083603, 109267439, 52>>, <<278695286, 103626669, 53>>, <<434490817, 109279041, 19>>, <<268952935, 391580008, 21>>>>,
       <<<<479609919, 179263397, 60>>, <<97072814, 134742115, 3>>, <<492253071, 518629174, 55>>, <<225724335, 202711757, 14>>>>>>,
     <<<<<<283865498, 23864622, 48>>, <<77242252, 486262236, 55>>, <<51460117, 150739756, 40>>, <<205267694, 23628255, 11>>>>,
       <<<<97803383, 282412687, 24>>, <<419999627, 378125430, 12>>, <<365304872, 406666570, 14>>, <<9362533, 17633517, 6>>>>,
       <<<<434783409, 103382536, 52>>, <<373035711, 442700503, 44>>, <<463413503, 507100820, 52>>, <<142068751, 425238053, 14>>>>>>,
     <<<<<<356739013, 96587407, 28>>, <<59420654, 171175644, 7>>, <<415352135, 21995504, 9>>, <<453638923, 49271314, 21>>>>,
       <<<<177202272, 51330407, 7>>, <<42163065, 263670772, 51>>, <<363562823, 452739710, 4>>, <<14426963, 486900387, 7>>>>,
       <<<<394901054, 159694193, 30>>, <<460228831, 531317791, 53>>, <<166672281, 167406408, 42>>, <<12876718, 434580694, 3>>>>>>,
     <<<<<<451952823, 530927459, 46>>, <<349106028, 311701776, 48>>, <<52597490, 296793138, 27>>, <<485030266, 506123444, 24>>>>,
       <<<<393998831, 80796431, 0>>, <<525273212, 170764799, 16>>, <<511504254, 535045014, 47>>, <<488479768, 392057964, 28>>>>,
       <<<<153708707, 446337870, 44>>, <<59597827, 393709298, 60>>, <<325117111, 11644162, 23>>, <<219189514, 459401476, 18>>>>>>,
     <<<<<<178717368, 244537227, 31>>, <<392088829, 142524252, 60>>, <<393526215, 99289549, 9>>, <<489502447, 509881693, 19>>>>,
       <<<<16986369, 251001193, 54>>, <<103617120, 510627636, 48>>, <<192727643, 520189639, 10>>, <<318359123, 65139205, 21>>>>,
       <<<<234126315, 215038644, 52>>, <<376782023, 343491502, 15>>, <<151449641, 521755257, 14>>, <<161920671, 371244933, 8>>>>>>,
     <<<<<<169752562, 45245606, 27>>, <<297912657, 401065350, 54>>, <<526667129, 442985550, 4>>, <<302184506, 389943539, 15>>>>,
       <<<<448578027, 430231925, 12>>, <<198510803, 182170692, 44>>, <<204409159, 393503070, 47>>, <<454261614, 37721827, 13>>>>,
       <<<<86219104, 306403617, 45>>, <<86710604, 344264695, 58>>, <<145679216, 251175694, 54>>, <<429100173, 484811257, 12>>>>>>
   >>,
   <<
     <<<<<<67505504, 431436407, 20>>, <<228348443, 511800272, 18>>, <<183364579, 531615482, 52>>, <<113196757, 377676762, 15>>>>,
       <<<<472595155, 501252176, 29>>, <<360633588, 160595138, 52>>, <<242209893, 323464513, 41>>, <<245817433, 407202536, 8>>>>,
       <<<<31124795, 272393551, 58>>, <<277401421, 380747212, 3>>, <<525937840, 254902407, 32>>, <<28550565, 159261178, 11>>>>>>,
     <<<<<<273883603, 442016590, 19>>, <<325161010, 386870275, 22>>, <<504821273, 223087141, 19>>, <<183034758, 260959115, 24>>>>,
       <<<<407936639, 495716157, 17>>, <<445048930, 523952212, 25>>, <<308171327, 470441810, 30>>, <<304515610, 430365019, 22>>>>,
       <<<<382955664, 33094683, 7>>, <<214998368, 482374982, 44>>, <<454237192, 359359456, 23>>, <<132838623, 143104821, 29>>>>>>,
     <<<<<<323803496, 486843465, 61>>, <<407275904, 122429725, 46>>, <<146888798, 156289856, 6>>, <<1000859, 349989916, 24>>>>,
       <<<<404976422, 119036968, 30>>, <<6888082, 29665448, 43>>, <<104946602, 124712178, 45>>, <<281739179, 28305350, 27>>>>,
       <<<<259800188, 460071477, 52>>, <<277126130, 165921649, 10>>, <<282113884, 269297481, 53>>, <<141725884, 448708830, 17>>>>>>,
     <<<<<<129685253, 84017528, 10>>, <<322004504, 269217676, 61>>, <<357113014, 330267771, 37>>, <<44150233, 314101011, 24>>>>,
       <<<<463733262, 404051716, 50>>, <<17159432, 107546522, 4>>, <<430192262, 302505185, 35>>, <<218194736, 40579485, 22>>>>,
       <<<<500343287, 332015334, 19>>, <<224704673, 232274549, 30>>, <<130658389, 369858329, 35>>, <<533345223, 190089325, 12>>>>>>,
     <<<<<<494648606, 370626712, 46>>, <<527731238, 515501127, 59>>, <<217812126, 337232385, 52>>, <<29954075, 332032334, 2>>>>,
       <<<<208161197, 154183280, 10>>, <<84282630, 28235186, 57>>, <<228934424, 232002747, 20>>, <<507159217, 272365458, 27>>>>,
       <<<<316238833, 499514224, 27>>, <<215652384, 132498286, 4>>, <<32941617, 172544735, 27>>, <<502727839, 432593265, 27>>>>>>,
     <<<<<<394549663, 374137880, 15>>, <<265263455, 240740247, 43>>, <<265248510, 335345332, 53>>, <<96052443, 46667095, 14>>>>,
       <<<<45650102, 493875229, 42>>, <<55209133, 501587316, 38>>, <<437030681, 136896239, 19>>, <<64648542, 532955441, 30>>>>,
       <<<<176723494, 423907093, 55>>, <<222564326, 438372586, 44>>, <<254287267, 295296533, 8>>, <<84090917, 416343613, 1>>>>>>,
     <<<<<<522554516, 38546468, 3>>, <<435813152, 395281465, 47>>, <<429698743, 281567081, 30>>, <<85708319, 506166107, 13>>>>,
       <<<<526868212, 435456868, 54>>, <<331421571, 114270468, 33>>, <<405649094, 285120638, 14>>, <<85660089, 424678618, 11>>>>,
       <<<<517724493, 218122487, 60>>, <<286087496, 32399238, 9>>, <<519260751, 106558475, 63>>, <<74051403, 3644603, 15>>>>>>,
     <<<<<<8000441, 478129100, 12>>, <<356917461, 499887272, 17>>, <<194746697, 109444958, 5>>, <<425378771, 398400180, 3>>>>,
       <<<<72184798, 193598740, 1>>, <<239052419, 37190460, 7>>, <<86247644, 45110596, 7>>, <<415843954, 449458137, 1>>>>,
       <<<<396937930, 493811819, 53>>, <<146639606, 305154526, 2>>, <<494071063, 105373677, 37>>, <<477008947, 435454063, 24>>>>>>
   >>,
   <<
     <<<<<<188576715, 276550389, 55>>, <<186797150, 495530699, 7>>, <<370124644, 272733000, 60>>, <<488382464, 468129430, 21>>>>,
       <<<<444049357, 402277993, 18>>, <<458327121, 168423347, 39>>, <<80887168, 423102284, 50>>, <<231859147, 118550845, 30>>>>,
       <<<<491731549, 469088219, 22>>, <<307729213, 101311219, 30>>, <<418892935, 156684099, 48>>, <<140704073, 165032590, 27>>>>>>,
     <<<<<<246476362, 327304748, 17>>, <<222337075, 397728026, 49>>, <<401888617, 328900774, 58>>, <<454879775, 164495519, 1>>>>,
       <<<<212013633, 182230083, 52>>, <<180267009, 178461515, 7>>, <<274351077, 256901886, 28>>, <<435534198, 384534802, 21>>>>,
       <<<<201322726, 4008125, 51>>, <<281136161, 27014199, 32>>, <<83725054, 24182057, 2>>, <<143872846, 442706317, 4>>>>>>,
     <<<<<<253684871, 418758845, 5>>, <<308881859, 419177571, 19>>, <<19322037, 433912792, 11>>, <<92084633, 268512305, 7>>>>,
       <<<<425221436, 496289312, 60>>, <<154042309, 6342622, 7>>, <<269783014, 44068422, 33>>, <<82146691, 517011249, 3>>>>,
       <<<<58350604, 178592432, 51>>, <<335766137, 311038614, 35>>, <<57058243, 458004863, 39>>, <<110094603, 219149319, 29>>>>>>,
     <<<<<<523962224, 387778912, 22>>, <<386227400, 393300711, 46>>, <<60147999, 475045640, 23>>, <<402156792, 218639541, 30>>>>,
       <<<<55304866, 513635629, 56>>, <<260571103, 402120995, 2>>, <<354630701, 27453358, 5>>, <<229211018, 161700929, 11>>>>,
       <<<<256020227, 481549102, 21>>, <<51453026, 493151311, 49>>, <<217971129, 170582618, 27>>, <<354049615, 383093951, 7>>>>>>,
     <<<<<<21762785, 421937862, 37>>, <<525157576, 397127196, 29>>, <<104342908, 465630437, 29>>, <<183473543, 73792146, 27>>>>,
       <<<<464448748, 297515183, 62>>, <<481537234, 341755864, 33>>, <<80689465, 264979653, 35>>, <<82554761, 281570173, 0>>>>,
       <<<<309505367, 327516263, 32>>, <<521652596, 502074857, 28>>, <<394972498, 523810565, 24>>, <<443254368, 397145863, 8>>>>>>,
     <<<<<<132536557, 406395027, 54>>, <<514720202, 124717642, 43>>, <<235028708, 109212791, 6>>, <<246115488, 500120489, 23>>>>,
       <<<<2288524, 101713430, 45>>, <<127370024, 277605003, 9>>, <<361830115, 275306901, 18>>, <<28405103, 159100704, 27>>>>,
       <<<<86460131, 513736516, 54>>, <<40163740, 425460217, 23>>, <<179033981, 50627068, 44>>, <<321981549, 404103748, 4>>>>>>,
     <<<<<<54227617, 302397683, 41>>, <<31942230, 420000332, 11>>, <<436817796, 270480170, 29>>, <<421667292, 397928514, 1>>>>,
       <<<<28344194, 131863194, 11>>, <<456192890, 258277241, 56>>, <<155425448, 208447948, 48>>, <<120630955, 313798841, 10>>>>,
       <<<<471181589, 418226006, 61>>, <<265478389, 465931546, 38>>, <<392220649, 382946249, 20>>, <<331172356, 196266730, 12>>>>>>,
     <<<<<<400233530, 136093914, 50>>, <<485524050, 523598357, 11>>, <<51925157, 179570359, 11>>, <<447946700, 105182529, 12>>>>,
       <<<<277517717, 397796681, 60>>, <<124709864, 92853748, 41>>, <<481666616, 302719810, 14>>, <<347303007, 426239078, 21>>>>,
       <<<<219748589, 387495128, 1>>, <<168821048, 152920266, 31>>, <<533383783, 190842180, 0>>, <<417345198, 393153156, 7>>>>>>
   >>,
   <<
     <<<<<<332094858, 245980808, 62>>, <<226749712, 15395550, 17>>, <<416291982, 355436640, 60>>, <<202965756, 463465699, 11>>>>,
       <<<<120545948, 191905767, 51>>, <<102205830, 242264494, 32>>, <<410798730, 167780127, 32>>, <<369252789, 39455826, 31>>>>,
       <<<<10630471, 238548781, 42>>, <<27565052, 380892837, 20>>, <<320751164, 448676404, 40>>, <<233113220, 121736434, 12>>>>>>,
     <<<<<<478034406, 378315507, 21>>, <<326638590, 437364086, 61>>, <<476140676, 234804076, 12>>, <<469974510, 210677943, 27>>>>,
       <<<<535663283, 231810263, 44>>, <<470135901, 385199653, 56>>, <<178222593, 476891649, 45>>, <<64449530, 442072929, 13>>>>,
       <<<<390080820, 189457743, 51>>, <<493827782, 37512875, 61>>, <<176636263, 432299024, 1>>, <<248180590, 115797735, 31>>>>>>,
     <<<<<<122665402, 107345594, 26>>, <<131957771, 13274083, 20>>, <<379727749, 364046409, 25>>, <<90594330, 245384472, 3>>>>,
       <<<<353932129, 248337665, 61>>, <<342122953, 160304801, 26>>, <<316456257, 271683751, 45>>, <<83792035, 26723683, 10>>>>,
       <<<<102845610, 33925100, 46>>, <<196569011, 85459635, 28>>, <<410198749, 447407657, 5>>, <<206732665, 101174905, 7>>>>>>,
     <<<<<<385038319, 18316949, 25>>, <<371205149, 88773632, 28>>, <<64650009, 122389903, 61>>, <<241044914, 64033979, 6>>>>,
       <<<<210863424, 65939925, 35>>, <<276003374, 341458341, 35>>, <<173317722, 169256212, 39>>, <<47605886, 57680092, 23>>>>,
       <<<<45796256, 364158475, 16>>, <<483286886, 139269543, 63>>, <<7677752, 18084303, 49>>, <<211784244, 213280873, 12>>>>>>,
     <<<<<<377897546, 472380487, 23>>, <<114275485, 264357380, 44>>, <<199738300, 105001141, 4>>, <<91956689, 157939658, 23>>>>,
       <<<<470017491, 451783766, 62>>, <<506099819, 9379710, 35>>, <<387232645, 209083405, 55>>, <<66495787, 211014177, 1>>>>,
       <<<<143521114, 325800697, 27>>, <<378758777, 290324951, 52>>, <<3132722, 108265084, 60>>, <<446959537, 334748945, 22>>>>>>,
     <<<<<<476566860, 384595629, 20>>, <<210090361, 330729884, 11>>, <<88682567, 203891780, 18>>, <<400144984, 73829392, 0>>>>,
       <<<<474723301, 106922289, 56>>, <<476881726, 29701932, 23>>, <<33337300, 393880074, 42>>, <<117256699, 351236185, 7>>>>,
       <<<<341904309, 512451187, 44>>, <<340453472, 443979737, 12>>, <<423711064, 362177430, 62>>, <<384894265, 453125063, 26>>>>>>,
     <<<<<<309970817, 7175856, 43>>, <<493979230, 70232058, 21>>, <<90687864, 142976010, 51>>, <<28082631, 237894290, 0>>>>,
       <<<<139736834, 229962820, 6>>, <<96131453, 533602504, 26>>, <<310613188, 72666584, 63>>, <<210257347, 94187950, 17>>>>,
       <<<<211335164, 490463366, 51>>, <<357811879, 489114123, 5>>, <<225941690, 96900781, 33>>, <<213185970, 427344905, 13>>>>>>,
     <<<<<<293810449, 202632249, 38>>, <<64380191, 215226918, 63>>, <<101200081, 342135262, 23>>, <<146916112, 23246095, 6>>>>,
       <<<<66243060, 95521750, 54>>, <<86941496, 107460475, 41>>, <<174464822, 306644864, 22>>, <<81030612, 64242974, 17>>>>,
       <<<<314257896, 149962743, 6>>, <<286741256, 386890978, 0>>, <<374122445, 387853046, 55>>, <<401731148, 424836755, 4>>>>>>
   >>,
   <<
     <<<<<<396342071, 219813158, 59>>, <<413468498, 503266323, 58>>, <<308086307, 399048670, 39>>, <<426188354, 138641284, 7>>>>,
       <<<<255196395, 276130072, 46>>, <<465294016, 202821617, 36>>, <<305818092, 290837129, 58>>, <<302051455, 77301617, 3>>>>,
       <<<<353101648, 33372715, 60>>, <<487579902, 525620504, 37>>, <<418996344, 491555828, 34>>, <<51326602, 512180342, 3>>>>>>,
     <<<<<<149932620, 57847811, 39>>, <<142870260, 432320375, 5>>, <<518713649, 474981627, 47>>, <<390922482, 267629667, 30>>>>,
       <<<<514640921, 302077521, 25>>, <<469281424, 421092200, 3>>, <<117623184, 131849681, 51>>, <<356181913, 483757809, 14>>>>,
       <<<<294243920, 449291297, 32>>, <<47193958, 307194271, 20>>, <<380748953, 366951202, 17>>, <<230893474, 487173568, 19>>>>>>,
     <<<<<<147886761, 100194082, 30>>, <<196038203, 497943885, 22>>, <<114145567, 168624572, 31>>, <<533983772, 232451180, 1>>>>,
       <<<<13143543, 522492209, 61>>, <<198252050, 110026464, 62>>, <<428313123, 30894511, 11>>, <<244897864, 409719964, 25>>>>,
       <<<<533285316, 48433125, 1>>, <<170022327, 429770543, 55>>, <<215859211, 194351502, 36>>, <<465130666, 230119546, 31>>>>>>,
     <<<<<<360769882, 482521062, 10>>, <<662924, 468573041, 34>>, <<275110208, 431159702, 16>>, <<234861951, 267021718, 26>>>>,
       <<<<142188233, 515311521, 54>>, <<273050343, 107211069, 47>>, <<117321197, 374912758, 53>>, <<395220903, 16412474, 14>>>>,
       <<<<172239393, 273884070, 45>>, <<316107378, 283735449, 48>>, <<510340472, 7265530, 3>>, <<40046504, 104222615, 23>>>>>>,
     <<<<<<158593529, 236843395, 56>>, <<406930904, 215132800, 7>>, <<433027228, 16292765, 37>>, <<23167675, 108163648, 13>>>>,
       <<<<435233904, 288310684, 35>>, <<182420783, 376982044, 23>>, <<277184955, 285094850, 58>>, <<260869513, 247623031, 26>>>>,
       <<<<212039910, 203070605, 62>>, <<108195006, 140272343, 50>>, <<14316730, 53954846, 37>>, <<401009795, 120310833, 10>>>>>>,
     <<<<<<206973530, 233563752, 46>>, <<42883463, 13493107, 50>>, <<108037731, 237433037, 5>>, <<83653837, 179873542, 18>>>>,
       <<<<456814597, 405708041, 52>>, <<280837625, 205133250, 12>>, <<127504998, 492919031, 6>>, <<297926357, 336767140, 10>>>>,
       <<<<260473054, 108725036, 21>>, <<488274903, 390577968, 1>>, <<139339537, 388617351, 10>>, <<209048309, 524631973, 27>>>>>>,
     <<<<<<533325255, 285997434, 39>>, <<459942703, 461283652, 23>>, <<69275764, 63051386, 28>>, <<59959444, 391970392, 15>>>>,
       <<<<337827222, 393262972, 54>>, <<88077513, 441599684, 0>>, <<94627, 380358489, 41>>, <<204618344, 83872185, 1>>>>,
       <<<<335727627, 70554617, 54>>, <<232231410, 365697483, 46>>, <<439080468, 228365546, 2>>, <<56244306, 493286130, 21>>>>>>,
     <<<<<<457761143, 17257858, 14>>, <<384562063, 343960830, 48>>, <<144288450, 453739916, 34>>, <<8655960, 177567988, 21>>>>,
       <<<<210471334, 236057866, 48>>, <<188645867, 342770813, 53>>, <<524014952, 433922918, 15>>, <<388552613, 291688632, 26>>>>,
       <<<<100901406, 356928408, 29>>, <<438374024, 185940149, 8>>, <<517661746, 346894859, 6>>, <<87769906, 262406442, 18>>>>>>
   >>,
   <<
     <<<<<<211665846, 213386020, 55>>, <<275654709, 328114755, 61>>, <<460272207, 332324608, 29>>, <<208621325, 488116258, 27>>>>,
       <<<<26732388, 242622742, 46>>, <<389413937, 149117734, 63>>, <<463994747, 183514922, 6>>, <<173961775, 239991328, 30>>>>,
       <<<<347994685, 68011096, 23>>, <<175649818, 121957515, 21>>, <<55271139, 106714461, 60>>, <<149615642, 333616034, 21>>>>>>,
     <<<<<<199767505, 315957752, 37>>, <<480775349, 323543152, 4>>, <<46908696, 496398854, 26>>, <<149639803, 163445922, 15>>>>,
       <<<<59279274, 374339100, 45>>, <<505174692, 355477325, 27>>, <<20559171, 314943795, 47>>, <<202544388, 19330489, 20>>>>,
       <<<<357398427, 338163253, 47>>, <<228514949, 62489337, 30>>, <<147808234, 277271729, 41>>, <<44222990, 4631423, 28>>>>>>,
     <<<<<<23460936, 259736352, 12>>, <<117421397, 256009000, 63>>, <<484144844, 154414070, 12>>, <<479856015, 121135837, 13>>>>,
       <<<<130743326, 496912823, 43>>, <<412371000, 301602181, 47>>, <<214416685, 445095886, 26>>, <<95517936, 521613420, 13>>>>,
       <<<<424426716, 129848482, 26>>, <<171919433, 342538483, 27>>, <<206541225, 167252232, 34>>, <<314081528, 358984939, 18>>>>>>,
     <<<<<<522752613, 134005849, 33>>, <<216244975, 261117487, 33>>, <<528132978, 78509193, 5>>, <<400255132, 177441030, 7>>>>,
       <<<<533249233, 412936008, 40>>, <<199978727, 504121542, 31>>, <<167316037, 203389653, 2>>, <<498050797, 344513953, 1>>>>,
       <<<<353993457, 319087356, 37>>, <<292852577, 23133758, 41>>, <<178579829, 15386249, 1>>, <<54776246, 200452537, 22>>>>>>,
     <<<<<<331605606, 136221132, 6>>, <<420082172, 529294371, 2>>, <<453430055, 382448479, 58>>, <<19924468, 297635035, 30>>>>,
       <<<<46058865, 253082167, 15>>, <<251158265, 405752758, 39>>, <<293073489, 184570744, 21>>, <<526300462, 413116219, 24>>>>,
       <<<<364268430, 489409814, 39>>, <<211925391, 170110410, 60>>, <<27397174, 224766504, 38>>, <<527118665, 220486657, 15>>>>>>,
     <<<<<<246010213, 282094755, 42>>, <<262241823, 140394863, 21>>, <<115965050, 534137701, 33>>, <<273050046, 336431167, 19>>>>,
       <<<<365058098, 370666866, 5>>, <<83484170, 98583370, 9>>, <<495642374, 497774865, 40>>, <<472022717, 145657307, 2>>>>,
       <<<<291140266, 134794038, 56>>, <<145656895, 457438472, 51>>, <<518667500, 447664889, 5>>, <<364148262, 186396628, 0>>>>>>,
     <<<<<<46578023, 328518397, 53>>, <<509320794, 261989249, 43>>, <<390455027, 457045587, 42>>, <<525999361, 203054991, 29>>>>,
       <<<<243636180, 169849133, 20>>, <<61096293, 91315776, 8>>, <<15220910, 17995899, 28>>, <<5208816, 416103465, 20>>>>,
       <<<<263279072, 455328043, 54>>, <<62313006, 465568700, 39>>, <<83388756, 309519713, 19>>, <<34445271, 319683853, 3>>>>>>,
     <<<<<<82270035, 496589767, 26>>, <<208843445, 292313056, 3>>, <<36049306, 463249610, 4>>, <<395097116, 147963356, 23>>>>,
       <<<<241408286, 37575017, 10>>, <<310596753, 25629443, 58>>, <<237164044, 207794029, 31>>, <<29366437, 295708420, 29>>>>,
       <<<<292369764, 190137419, 58>>, <<418654454, 116657350, 29>>, <<123943217, 404560758, 18>>, <<393994984, 373583485, 0>>>>>>
   >>,
   <<
     <<<<<<144143726, 220640205, 42>>, <<241231268, 50661196, 36>>, <<348992582, 274739230, 36>>, <<52795019, 360441671, 26>>>>,
       <<<<451905364, 80635407, 24>>, <<144057942, 63821373, 56>>, <<98159728, 331631656, 5>>, <<353601073, 217297894, 29>>>>,
       <<<<498720388, 446546664, 6>>, <<299360134, 153861154, 12>>, <<436511609, 484441698, 42>>, <<432061006, 494745476, 12>>>>>>,
     <<<<<<502094213, 79682404, 20>>, <<246585087, 479682622, 32>>, <<224348739, 108085198, 32>>, <<23502369, 64045794, 28>>>>,
       <<<<361480574, 414271501, 1>>, <<374784474, 302363141, 12>>, <<347210655, 57866085, 26>>, <<11690640, 258373596, 2>>>>,
       <<<<284352613, 86866700, 0>>, <<193781713, 523085607, 9>>, <<444600784, 427585633, 9>>, <<183948864, 270236281, 3>>>>>>,
     <<<<<<532067541, 525643011, 63>>, <<236987613, 290204771, 38>>, <<296143947, 422146238, 43>>, <<513367318, 2473529, 15>>>>,
       <<<<295658097, 71166810, 19>>, <<521629767, 405005538, 44>>, <<294920842, 310710037, 51>>, <<370596614, 332277887, 9>>>>,
       <<<<117255786, 44738964, 20>>, <<73049030, 118651049, 63>>, <<402766125, 472330741, 9>>, <<319065439, 485668072, 22>>>>>>,
     <<<<<<82763213, 117089262, 62>>, <<282548069, 254587633, 39>>, <<265144014, 493002476, 17>>, <<143217475, 89258857, 20>>>>,
       <<<<23395006, 173116726, 22>>, <<306815643, 523237252, 3>>, <<13004205, 443627213, 19>>, <<44174590, 17026917, 0>>>>,
       <<<<514638688, 469214439, 27>>, <<142941190, 278704677, 62>>, <<496536796, 481202206, 22>>, <<85108474, 223619277, 28>>>>>>,
     <<<<<<422198683, 250175765, 19>>, <<291636336, 202841067, 62>>, <<60455110, 61073831, 12>>, <<356432701, 111455934, 23>>>>,
       <<<<448063378, 337599414, 44>>, <<106076016, 504407744, 34>>, <<364243758, 166724163, 61>>, <<226215848, 464096031, 23>>>>,
       <<<<323589031, 345185359, 51>>, <<342747578, 495850973, 11>>, <<365255117, 21583235, 46>>, <<316990054, 17672217, 13>>>>>>,
     <<<<<<336595006, 425413727, 35>>, <<33911986, 345612562, 24>>, <<419954237, 125994776, 24>>, <<145787449, 231578226, 10>>>>,
       <<<<269983626, 269014944, 23>>, <<310164184, 493880201, 24>>, <<298193419, 110339926, 50>>, <<89900284, 517709786, 18>>>>,
       <<<<218573090, 346051246, 11>>, <<82139646, 37519891, 18>>, <<227970917, 522966561, 53>>, <<477904520, 315807385, 19>>>>>>,
     <<<<<<290456554, 231909770, 45>>, <<406381528, 206013123, 62>>, <<389393, 471830752, 10>>, <<24622934, 386135222, 21>>>>,
       <<<<480607798, 429064620, 54>>, <<208482264, 304314514, 1>>, <<98921498, 506727513, 9>>, <<255466065, 204417507, 6>>>>,
       <<<<143440423, 12320272, 19>>, <<360948626, 94730840, 63>>, <<535079421, 371918142, 56>>, <<458198650, 281475180, 7>>>>>>,
     <<<<<<484811065, 94564943, 24>>, <<65498572, 451003519, 21>>, <<441861821, 473516712, 47>>, <<524200669, 121308197, 8>>>>,
       <<<<71976311, 64100660, 54>>, <<148704823, 527460282, 0>>, <<324423852, 97990330, 47>>, <<20015709, 204309581, 6>>>>,
       <<<<288800837, 509110110, 62>>, <<248449718, 209670776, 55>>, <<231796627, 257887667, 46>>, <<261372862, 449917796, 4>>>>>>
   >>,
   <<
     <<<<<<288981432, 115329613, 28>>, <<367346966, 222947327, 9>>, <<535431562, 200400426, 59>>, <<238628999, 397164626, 31>>>>,
       <<<<127679025, 130097438, 10>>, <<241132958, 158790610, 54>>, <<214929450, 179063059, 19>>, <<235426539, 297957808, 21>>>>,
       <<<<62093117, 227196330, 25>>, <<178906759, 456110097, 44>>, <<126218842, 33555680, 11>>, <<454455669, 60439167, 1>>>>>>,
     <<<<<<89946483, 481568596, 37>>, <<44863983, 316966455, 53>>, <<431699548, 171757721, 41>>, <<477859066, 314896220, 25>>>>,
       <<<<98605133, 313868329, 6>>, <<512092750, 350448932, 17>>, <<134563039, 158398049, 52>>, <<391978372, 477953567, 21>>>>,
       <<<<311089957, 504508887, 30>>, <<228935708, 374605547, 20>>, <<532319656, 137676028, 24>>, <<5707636, 109546831, 3>>>>>>,
     <<<<<<181100245, 277203767, 22>>, <<209157664, 260117774, 50>>, <<438338778, 516246814, 19>>, <<20141850, 229592676, 30>>>>,
       <<<<494731992, 343004546, 47>>, <<57847600, 260473475, 54>>, <<7025209, 222977123, 28>>, <<17177155, 89238599, 24>>>>,
       <<<<161110490, 357348674, 48>>, <<272675513, 468993325, 40>>, <<19808698, 293436609, 25>>, <<473945518, 76174986, 8>>>>>>,
     <<<<<<290059619, 429214087, 37>>, <<278517357, 292177932, 48>>, <<478170293, 405133101, 8>>, <<212692672, 495119924, 0>>>>,
       <<<<448752491, 119959075, 35>>, <<385639442, 240069785, 42>>, <<428173625, 330877006, 11>>, <<446076698, 327503790, 18>>>>,
       <<<<116605125, 83388511, 8>>, <<380948546, 475379367, 42>>, <<56976984, 318544445, 5>>, <<27091705, 215153263, 13>>>>>>,
     <<<<<<314112352, 133277077, 2>>, <<159857085, 455581973, 56>>, <<176105498, 216768139, 60>>, <<389474693, 115810008, 16>>>>,
       <<<<490496089, 259833232, 30>>, <<420938046, 284843131, 41>>, <<81844945, 301232505, 61>>, <<76639894, 4916796, 4>>>>,
       <<<<224677515, 2971541, 49>>, <<47207345, 302813309, 34>>, <<24360463, 349945727, 7>>, <<119920372, 45968865, 17>>>>>>,
     <<<<<<82187804, 164385610, 60>>, <<289639366, 261289030, 9>>, <<488223335, 55878491, 3>>, <<401391927, 277808982, 28>>>>,
       <<<<68129424, 13789042, 5>>, <<466194907, 336893801, 19>>, <<328868090, 99317741, 49>>, <<186452806, 182351300, 22>>>>,
       <<<<385767861, 303555431, 57>>, <<463696636, 183700028, 36>>, <<485681638, 309824739, 28>>, <<10426086, 2718703, 9>>>>>>,
     <<<<<<23531782, 428159889, 22>>, <<100834452, 409368369, 45>>, <<235822849, 419353235, 12>>, <<344868611, 315389213, 20>>>>,
       <<<<11604015, 222796844, 33>>, <<93247458, 450107198, 32>>, <<397235686, 296665479, 37>>, <<106684312, 514366848, 24>>>>,
       <<<<719960, 156269495, 5>>, <<506765246, 110361081, 2>>, <<122764395, 45979725, 30>>, <<175034442, 292381044, 26>>>>>>,
     <<<<<<299471079, 135500611, 44>>, <<343904074, 245992936, 7>>, <<231530191, 204685301, 33>>, <<308570168, 344682745, 25>>>>,
       <<<<275389694, 519871866, 12>>, <<72218463, 395983056, 21>>, <<171766679, 170151219, 8>>, <<425536042, 495707916, 17>>>>,
       <<<<186494867, 315725351, 63>>, <<199616432, 314157309, 43>>, <<178093314, 451611466, 31>>, <<454789659, 272531560, 19>>>>>>
   >>,
   <<
     <<<<<<105493800, 69250106, 13>>, <<15557339, 119963863, 31>>, <<40885018, 517798227, 13>>, <<244703392, 1377900, 8>>>>,
       <<<<290070262, 186127064, 26>>, <<40360400, 305331001, 23>>, <<197149500, 345325518, 43>>, <<495866719, 512591164, 17>>>>,
       <<<<484393336, 1047286, 20>>, <<488789576, 36112060, 4>>, <<212499783, 19299908, 31>>, <<396383649, 518555179, 3>>>>>>,
     <<<<<<524124362, 486104080, 41>>, <<74274751, 7666616, 53>>, <<216952696, 15145646, 57>>, <<532394218, 290288719, 13>>>>,
       <<<<493124255, 223498531, 53>>, <<500374432, 131834473, 48>>, <<370519808, 334868981, 14>>, <<342112033, 79227690, 7>>>>,
       <<<<524622542, 318034852, 9>>, <<205779979, 404620561, 37>>, <<424499285, 80114139, 35>>, <<176513181, 394657683, 20>>>>>>,
     <<<<<<460886218, 92143573, 50>>, <<400999409, 220776604, 24>>, <<109965971, 317243257, 57>>, <<78955725, 250219070, 29>>>>,
       <<<<251820859, 144863068, 33>>, <<186714058, 37253451, 36>>, <<439652309, 102458048, 42>>, <<357554600, 358434064, 4>>>>,
       <<<<142548087, 189198746, 60>>, <<273464682, 315959394, 9>>, <<398602346, 477471826, 18>>, <<532004338, 376783165, 26>>>>>>,
     <<<<<<459879285, 287459231, 51>>, <<25410573, 487753324, 32>>, <<271642909, 14826613, 17>>, <<447081095, 150641292, 18>>>>,
       <<<<435530337, 500043234, 20>>, <<313171518, 363285914, 3>>, <<479461469, 144391563, 33>>, <<4135179, 111954774, 16>>>>,
       <<<<15832779, 104096321, 2>>, <<202943524, 129470219, 55>>, <<202973932, 447547847, 3>>, <<76304554, 149260171, 9>>>>>>,
     <<<<<<428973967, 211769619, 0>>, <<444495883, 107518008, 41>>, <<426597564, 248945755, 48>>, <<233441423, 45333174, 13>>>>,
       <<<<477322704, 124841859, 14>>, <<528478597, 456909009, 26>>, <<278733749, 105449855, 53>>, <<495901617, 324727695, 5>>>>,
       <<<<434888968, 47391803, 7>>, <<467042822, 37337234, 38>>, <<468950801, 25388998, 39>>, <<444889803, 90014550, 11>>>>>>,
     <<<<<<511775688, 11218863, 17>>, <<34122672, 113036311, 17>>, <<513423866, 399657869, 44>>, <<170437909, 315299709, 5>>>>,
       <<<<39137730, 78053252, 44>>, <<307494501, 509083682, 17>>, <<516442668, 506397221, 39>>, <<240732372, 41849083, 30>>>>,
       <<<<301897061, 204043825, 61>>, <<389326719, 145687960, 26>>, <<476436509, 479186363, 36>>, <<409209231, 62957491, 14>>>>>>,
     <<<<<<252205139, 162184873, 37>>, <<394399060, 63081923, 47>>, <<354249487, 486272478, 46>>, <<329641200, 330471050, 24>>>>,
       <<<<393649936, 407641804, 40>>, <<304791795, 403750094, 21>>, <<212828595, 85010252, 25>>, <<370713644, 234190377, 17>>>>,
       <<<<499837592, 391192777, 36>>, <<295307150, 55446530, 46>>, <<275833493, 410078321, 27>>, <<373224690, 478712132, 20>>>>>>,
     <<<<<<22330110, 502197801, 23>>, <<190239148, 292611550, 17>>, <<116839716, 167714239, 28>>, <<459149395, 97353567, 3>>>>,
       <<<<81959447, 183651005, 3>>, <<426999144, 532373574, 63>>, <<509880084, 512373303, 61>>, <<304505505, 114785378, 2>>>>,
       <<<<23339315, 246301505, 28>>, <<529312319, 236075069, 61>>, <<315771868, 336496449, 36>>, <<149931183, 532563014, 1>>>>>>
   >>
  >>

\* the base-point table, row m-1 of column j holds (2m-1) * 256^j * B, each entry in Duif
\* form ((y+x)/2, (y-x)/2, d*x*y), each coordinate as four 64-bit chunks
base_odd ==
  <<
   <<
     <<<<<<449191353, 519196443, 37>>, <<499517196, 508344091, 25>>, <<303997281, 472719969, 36>>, <<434789682, 524186856, 16>>>>,
       <<<<195053727, 339797015, 51>>, <<144727897, 350649367, 63>>, <<340247812, 386273489, 52>>, <<209455411, 334806602, 8>>>>,
       <<<<62739764, 254035990, 21>>, <<106259023, 459776143, 4>>, <<245476550, 141424431, 11>>, <<260453076, 474344866, 13>>>>>>,
     <<<<<<108481432, 479642273, 21>>, <<339944901, 157946051, 0>>, <<260092825, 74268682, 24>>, <<222329978, 140064878, 15>>>>,
       <<<<310274345, 428113826, 42>>, <<316726590, 256724983, 39>>, <<279309150, 80202856, 16>>, <<179170609, 182736413, 21>>>>,
       <<<<115895355, 314199292, 2>>, <<236645681, 38833288, 11>>, <<108621222, 96703766, 26>>, <<157080163, 144743100, 27>>>>>>,
     <<<<<<72539536, 139129104, 20>>, <<61830785, 356590351, 17>>, <<224392738, 342862897, 59>>, <<57738101, 85406661, 21>>>>,
       <<<<304343901, 507906830, 47>>, <<93557979, 335565637, 58>>, <<473059395, 217302130, 60>>, <<361605881, 355072463, 2>>>>,
       <<<<9781561, 317681606, 23>>, <<140437758, 473440287, 36>>, <<232706966, 275618860, 22>>, <<362666829, 246086053, 24>>>>>>,
     <<<<<<170349014, 208237378, 13>>, <<432988265, 297850090, 46>>, <<338302756, 113854984, 14>>, <<337529151, 409971108, 24>>>>,
       <<<<353964239, 163361386, 55>>, <<501027283, 310412620, 13>>, <<151819805, 397007166, 19>>, <<388598768, 364606836, 19>>>>,
       <<<<14440913, 101562144, 30>>, <<43995725, 202210588, 54>>, <<205248249, 175179497, 42>>, <<352831571, 176090225, 15>>>>>>,
     <<<<<<324284814, 213491242, 51>>, <<148775778, 423786941, 52>>, <<54754010, 449367847, 57>>, <<91144108, 317174990, 22>>>>,
       <<<<30326834, 230196728, 62>>, <<445653197, 42075867, 19>>, <<330258466, 456071203, 50>>, <<493768263, 117532999, 9>>>>,
       <<<<136501124, 450077438, 32>>, <<328001815, 201199522, 28>>, <<166356875, 198963366, 21>>, <<226510211, 252037128, 30>>>>>>,
     <<<<<<88085871, 519832082, 37>>, <<18355987, 392690492, 28>>, <<196614659, 83497412, 34>>, <<171362263, 165063561, 8>>>>,
       <<<<79896996, 92105737, 38>>, <<461652416, 458935717, 39>>, <<356971978, 243389781, 52>>, <<350938047, 44918272, 3>>>>,
       <<<<514868459, 11318039, 27>>, <<423719506, 209375876, 0>>, <<445465361, 281298534, 8>>, <<446626980, 387536010, 23>>>>>>,
     <<<<<<285228973, 499320970, 55>>, <<450785133, 504548970, 55>>, <<495181059, 233322571, 42>>, <<27490592, 222257083, 20>>>>,
       <<<<423616448, 29099244, 42>>, <<230406069, 468954918, 21>>, <<358001844, 340445386, 51>>, <<196088403, 161358004, 16>>>>,
       <<<<429347260, 226657381, 42>>, <<264694328, 283089607, 36>>, <<148107929, 196927458, 52>>, <<352631857, 99523574, 9>>>>>>,
     <<<<<<166196560, 322646028, 36>>, <<206443062, 421726772, 16>>, <<16345704, 385284075, 37>>, <<412545941, 126395487, 12>>>>,
       <<<<54945660, 271529497, 0>>, <<357337195, 235564688, 26>>, <<64563401, 337690656, 46>>, <<208154463, 248984840, 24>>>>,
       <<<<233331339, 376035518, 11>>, <<463466359, 216186168, 29>>, <<166404408, 213477878, 0>>, <<91384865, 74810500, 10>>>>>>
   >>,
   <<
     <<<<<<295161349, 456356921, 37>>, <<457480330, 121821785, 10>>, <<338804012, 192863662, 42>>, <<268924828, 390984998, 29>>>>,
       <<<<81078447, 359501137, 29>>, <<98779421, 26677884, 21>>, <<228681954, 338722725, 48>>, <<32082652, 56473020, 6>>>>,
       <<<<277049946, 286330972, 45>>, <<155631540, 223304194, 31>>, <<346464147, 298744465, 22>>, <<390276568, 52059204, 18>>>>>>,
     <<<<<<53286888, 68487703, 52>>, <<428553185, 294667435, 13>>, <<428701484, 2853121, 13>>, <<63559957, 334403533, 2>>>>,
       <<<<241206298, 417239678, 34>>, <<340648488, 305748822, 55>>, <<532670829, 316125245, 35>>, <<258349804, 241004329, 6>>>>,
       <<<<348322794, 324868185, 39>>, <<82051115, 83458579, 11>>, <<498108815, 521128665, 5>>, <<33433910, 302674858, 2>>>>>>,
     <<<<<<168964808, 218257196, 44>>, <<190884506, 474501376, 29>>, <<76045872, 417353778, 19>>, <<407387718, 265699676, 13>>>>,
       <<<<6870755, 518678517, 37>>, <<192571411, 203184574, 22>>, <<184032727, 227524936, 40>>, <<495746252, 519738800, 19>>>>,
       <<<<278965701, 513663943, 1>>, <<492950463, 419594206, 0>>, <<223431976, 491478754, 13>>, <<489794859, 155743193, 0>>>>>>,
     <<<<<<381128521, 481161370, 59>>, <<136692873, 228281485, 41>>, <<445531617, 285374209, 17>>, <<63661020, 502943496, 13>>>>,
       <<<<192835997, 130281234, 46>>, <<385461750, 249956782, 46>>, <<529818288, 135383431, 58>>, <<400068663, 309189605, 30>>>>,
       <<<<391337721, 493606930, 35>>, <<527584844, 76367814, 24>>, <<394245555, 111157975, 44>>, <<15732904, 523961404, 17>>>>>>,
     <<<<<<314862374, 75733553, 50>>, <<89930497, 123315460, 6>>, <<160849784, 6690933, 30>>, <<508224165, 131229628, 26>>>>,
       <<<<408732818, 267623967, 29>>, <<154713133, 208975989, 31>>, <<326962313, 184075715, 18>>, <<353274104, 266661629, 19>>>>,
       <<<<20890336, 316307044, 36>>, <<125879237, 251808435, 53>>, <<276285376, 360262974, 43>>, <<45933304, 214483602, 28>>>>>>,
     <<<<<<25352924, 365981007, 25>>, <<406762509, 335702940, 11>>, <<224054414, 260409757, 21>>, <<153059999, 444495121, 12>>>>,
       <<<<447878810, 53781553, 59>>, <<348731643, 421859602, 43>>, <<61385675, 309746609, 38>>, <<478101692, 47976554, 5>>>>,
       <<<<65282193, 339157355, 2>>, <<402905599, 219160551, 17>>, <<137051544, 212469613, 61>>, <<421139062, 440462980, 24>>>>>>,
     <<<<<<453671295, 533037200, 53>>, <<467699345, 505283329, 29>>, <<41269801, 414034078, 51>>, <<437570717, 352830217, 6>>>>,
       <<<<235750598, 493457216, 54>>, <<525140471, 381047170, 57>>, <<481745516, 392247781, 42>>, <<106010182, 94366233, 0>>>>,
       <<<<54612788, 442900290, 25>>, <<24398325, 231669454, 63>>, <<373200509, 270937891, 23>>, <<438413177, 83061174, 3>>>>>>,
     <<<<<<408258639, 144208939, 38>>, <<447916132, 354975834, 32>>, <<414649825, 133461699, 11>>, <<496557595, 350301148, 6>>>>,
       <<<<332659296, 499584487, 17>>, <<357470534, 113268780, 55>>, <<340352748, 167707935, 17>>, <<398872859, 360959799, 29>>>>,
       <<<<166204828, 413662964, 27>>, <<446820069, 261512531, 4>>, <<232742921, 482465915, 34>>, <<93419766, 484757615, 9>>>>>>
   >>,
   <<
     <<<<<<506677463, 411906405, 15>>, <<88267364, 304248052, 44>>, <<447053171, 193668144, 59>>, <<104156942, 169637916, 1>>>>,
       <<<<438412127, 60945681, 40>>, <<182097298, 354642768, 3>>, <<278769695, 283781218, 47>>, <<401006331, 450667268, 9>>>>,
       <<<<98452667, 201774693, 6>>, <<233742640, 229554409, 14>>, <<216715038, 361150344, 1>>, <<323152434, 463257660, 23>>>>>>,
     <<<<<<225589933, 157072886, 60>>, <<75080767, 453842670, 42>>, <<347100230, 524561845, 51>>, <<123162844, 507489973, 20>>>>,
       <<<<479885322, 445795289, 40>>, <<457311572, 442897147, 8>>, <<78679082, 310833322, 11>>, <<514776554, 533457018, 23>>>>,
       <<<<105487539, 111779966, 22>>, <<269780556, 277238384, 17>>, <<281976361, 71649860, 39>>, <<525218749, 68383755, 8>>>>>>,
     <<<<<<260856485, 115789254, 19>>, <<281424399, 295147498, 60>>, <<21988086, 69223643, 44>>, <<404228421, 40713753, 25>>>>,
       <<<<5918205, 79443058, 6>>, <<368703045, 98911610, 11>>, <<259526212, 163630850, 46>>, <<88587749, 394312479, 7>>>>,
       <<<<494258542, 147341492, 58>>, <<277566512, 92884689, 28>>, <<210097426, 368750492, 39>>, <<79060831, 131591913, 25>>>>>>,
     <<<<<<49640983, 433102382, 34>>, <<493196783, 411529245, 10>>, <<283507245, 271134809, 44>>, <<461556457, 204367171, 14>>>>,
       <<<<488039990, 106815476, 9>>, <<312994889, 169210034, 6>>, <<151253456, 166158739, 52>>, <<106118932, 269464692, 16>>>>,
       <<<<61301417, 86815958, 57>>, <<202520518, 396043070, 24>>, <<190847719, 523049960, 30>>, <<68689638, 257758476, 11>>>>>>,
     <<<<<<240999257, 35376347, 47>>, <<166657854, 137566283, 31>>, <<266693589, 84934949, 15>>, <<325994076, 170518279, 8>>>>,
       <<<<242359630, 442859811, 18>>, <<219416179, 498928837, 24>>, <<80949753, 115681026, 24>>, <<227690463, 13162288, 18>>>>,
       <<<<87596452, 267442685, 25>>, <<223513675, 435383660, 5>>, <<178400597, 199721342, 44>>, <<155018299, 88705872, 30>>>>>>,
     <<<<<<285448670, 245597911, 53>>, <<22512591, 116049619, 1>>, <<272903276, 44984328, 39>>, <<154828107, 140579305, 24>>>>,
       <<<<364574646, 217517324, 55>>, <<519080733, 495389854, 38>>, <<350167147, 499550833, 18>>, <<160920893, 238283164, 28>>>>,
       <<<<210172156, 186010720, 6>>, <<503126473, 73145021, 55>>, <<216316131, 189683778, 3>>, <<425665260, 48049147, 8>>>>>>,
     <<<<<<476993939, 468881122, 6>>, <<291662787, 244984980, 36>>, <<376728319, 511706520, 28>>, <<358945861, 163563206, 25>>>>,
       <<<<14737538, 203731428, 63>>, <<435049741, 482356581, 52>>, <<285980206, 187419722, 33>>, <<290395775, 68053191, 14>>>>,
       <<<<5365774, 292963253, 4>>, <<451220671, 342330270, 0>>, <<423187221, 98506794, 13>>, <<88230167, 213789621, 12>>>>>>,
     <<<<<<286927870, 137899012, 54>>, <<474501701, 233997625, 11>>, <<69704948, 535636320, 19>>, <<439773201, 502545474, 10>>>>,
       <<<<3966314, 126010713, 19>>, <<12626988, 236712138, 46>>, <<12447624, 90594836, 28>>, <<358375804, 13828762, 20>>>>,
       <<<<278470828, 341216679, 32>>, <<461054578, 33821383, 20>>, <<36835427, 273775075, 12>>, <<315156573, 100897591, 9>>>>>>
   >>,
   <<
     <<<<<<37495198, 208286044, 36>>, <<21012942, 517250107, 54>>, <<300712911, 246048683, 59>>, <<370508268, 269472917, 5>>>>,
       <<<<157804327, 488880157, 59>>, <<58066011, 268430284, 24>>, <<480914658, 365178026, 32>>, <<186601926, 410294250, 2>>>>,
       <<<<497668661, 71066069, 47>>, <<126233660, 32244931, 38>>, <<314539004, 104920540, 38>>, <<516644311, 106013430, 29>>>>>>,
     <<<<<<410253350, 262667035, 7>>, <<452043953, 430530169, 16>>, <<252637965, 353090648, 42>>, <<103636714, 474741715, 5>>>>,
       <<<<274873915, 93716836, 23>>, <<152946662, 532693042, 60>>, <<24213435, 300436, 0>>, <<341268983, 312325946, 20>>>>,
       <<<<266363808, 152341195, 33>>, <<6607363, 54639101, 2>>, <<476576564, 456937733, 24>>, <<206707656, 427945108, 11>>>>>>,
     <<<<<<67747050, 5705711, 47>>, <<250647928, 428232835, 52>>, <<47480554, 514261986, 31>>, <<15786281, 476905611, 30>>>>,
       <<<<405581017, 50643535, 6>>, <<349486267, 149587511, 28>>, <<420392723, 146756165, 4>>, <<456603165, 216484993, 4>>>>,
       <<<<144512970, 32990745, 27>>, <<485123972, 380792263, 62>>, <<256983513, 28249196, 26>>, <<214666555, 208167496, 22>>>>>>,
     <<<<<<219583260, 227354508, 49>>, <<233438874, 394189826, 19>>, <<298857938, 506447586, 47>>, <<476873250, 344631493, 2>>>>,
       <<<<61293757, 108332910, 27>>, <<369356304, 133863365, 1>>, <<134729182, 83145119, 15>>, <<254771104, 464488642, 24>>>>,
       <<<<347120796, 283163981, 5>>, <<462861960, 200868458, 59>>, <<455309587, 52481606, 29>>, <<43128886, 402244564, 8>>>>>>,
     <<<<<<481737866, 242055358, 30>>, <<2913243, 424217260, 11>>, <<482914345, 63213808, 35>>, <<445954744, 136645540, 16>>>>,
       <<<<119143250, 236702159, 57>>, <<102591266, 372621875, 19>>, <<114730312, 184925815, 56>>, <<153876293, 468311958, 23>>>>,
       <<<<411540973, 358610121, 1>>, <<223766334, 526644588, 36>>, <<51217381, 532803569, 28>>, <<52278379, 371918967, 19>>>>>>,
     <<<<<<63929733, 427266992, 46>>, <<196756495, 333107318, 30>>, <<129552685, 483075949, 28>>, <<510334307, 315816798, 3>>>>,
       <<<<27895753, 141066523, 41>>, <<509618926, 310991120, 42>>, <<398140752, 53517017, 18>>, <<401292477, 532815954, 20>>>>,
       <<<<500330875, 128932350, 23>>, <<362932762, 453752856, 38>>, <<230444393, 458495934, 37>>, <<466064840, 477845295, 3>>>>>>,
     <<<<<<203675268, 412081349, 15>>, <<500745807, 141132243, 29>>, <<451299357, 39333761, 6>>, <<218898372, 480161896, 5>>>>,
       <<<<332735968, 350901064, 35>>, <<338783703, 160084231, 4>>, <<120626536, 472028212, 59>>, <<61473647, 134851067, 20>>>>,
       <<<<368121638, 137358416, 28>>, <<304058889, 157923614, 33>>, <<119160059, 66672593, 16>>, <<361973809, 524230930, 10>>>>>>,
     <<<<<<507913334, 448457051, 0>>, <<143161281, 414472009, 1>>, <<165807866, 232026958, 50>>, <<282161474, 450541718, 13>>>>,
       <<<<318161741, 487083029, 20>>, <<33443946, 461591589, 56>>, <<445410744, 354396797, 1>>, <<51077612, 171957533, 31>>>>,
       <<<<409538016, 332921448, 56>>, <<470306889, 461110272, 54>>, <<372734583, 279200944, 63>>, <<46909949, 289954041, 21>>>>>>
   >>,
   <<
     <<<<<<499311348, 496425597, 16>>, <<146038105, 532782639, 45>>, <<244942797, 163814896, 7>>, <<408405822, 159233350, 7>>>>,
       <<<<319215142, 81403226, 44>>, <<366341675, 528530859, 34>>, <<107415486, 476380341, 15>>, <<83259000, 9251294, 20>>>>,
       <<<<414996777, 457717465, 14>>, <<177170608, 477156327, 0>>, <<435292344, 413739138, 30>>, <<511701427, 324667604, 15>>>>>>,
     <<<<<<523999453, 171181034, 51>>, <<290393156, 135102969, 48>>, <<33156287, 187697373, 54>>, <<372749253, 370161405, 11>>>>,
       <<<<105828324, 293605658, 43>>, <<169169381, 352331195, 4>>, <<158799822, 158151984, 34>>, <<173117141, 252658182, 1>>>>,
       <<<<407892156, 28893236, 46>>, <<485536483, 448837274, 45>>, <<517410901, 518974053, 42>>, <<358665070, 151640204, 23>>>>>>,
     <<<<<<520404455, 107817647, 58>>, <<267390100, 297268103, 52>>, <<374569215, 254026320, 24>>, <<370866343, 387482780, 28>>>>,
       <<<<234090830, 515166303, 20>>, <<365824462, 374398376, 55>>, <<162315732, 61107770, 20>>, <<340020256, 474701009, 2>>>>,
       <<<<119065061, 481175523, 60>>, <<278061149, 339791194, 41>>, <<386826049, 275162356, 0>>, <<416182585, 199622698, 20>>>>>>,
     <<<<<<166199787, 409491181, 40>>, <<511304882, 138453538, 22>>, <<372514093, 521525717, 36>>, <<70670883, 165503635, 7>>>>,
       <<<<527138588, 134849620, 24>>, <<143571938, 426351845, 20>>, <<369776586, 259561752, 57>>, <<399889317, 199590833, 20>>>>,
       <<<<165095483, 302270426, 10>>, <<251570771, 381192060, 35>>, <<428388146, 143798851, 2>>, <<116652618, 377439614, 11>>>>>>,
     <<<<<<37805336, 77261913, 48>>, <<7044085, 122760583, 19>>, <<524817121, 71565299, 61>>, <<20486707, 357069996, 13>>>>,
       <<<<48265231, 260602255, 6>>, <<377140508, 13301363, 6>>, <<379694288, 443306436, 39>>, <<91129599, 414991986, 0>>>>,
       <<<<453766063, 262089370, 8>>, <<378359219, 333288191, 36>>, <<34573461, 289402380, 5>>, <<494567319, 319923270, 13>>>>>>,
     <<<<<<298774057, 370242338, 9>>, <<201679507, 63317909, 46>>, <<390152253, 261579068, 14>>, <<3705238, 399947163, 22>>>>,
       <<<<380866297, 244360696, 35>>, <<301400801, 72552881, 43>>, <<280746170, 410645825, 20>>, <<408258602, 168855904, 23>>>>,
       <<<<328897284, 226926389, 43>>, <<445665744, 198730183, 59>>, <<485950206, 442680482, 18>>, <<242486925, 327016513, 2>>>>>>,
     <<<<<<222498920, 252738205, 58>>, <<152251742, 238444971, 31>>, <<252198702, 460463234, 38>>, <<232803391, 56226615, 4>>>>,
       <<<<238253776, 454404482, 39>>, <<7261777, 436660400, 21>>, <<108403343, 60066593, 0>>, <<9471843, 389507430, 22>>>>,
       <<<<426113599, 488882008, 53>>, <<40815968, 274329979, 19>>, <<333850016, 110279187, 21>>, <<181768234, 534412450, 14>>>>>>,
     <<<<<<370587337, 132266313, 27>>, <<324769154, 342414921, 44>>, <<318908336, 483288586, 29>>, <<490263856, 340162758, 2>>>>,
       <<<<128359928, 107359414, 23>>, <<111781662, 400359079, 43>>, <<78594589, 328059029, 43>>, <<89291857, 251820906, 7>>>>,
       <<<<453980612, 294183364, 4>>, <<367557727, 30027554, 9>>, <<142599545, 45294743, 45>>, <<223498352, 324059177, 21>>>>>>
   >>,
   <<
     <<<<<<240597526, 30630488, 58>>, <<386806262, 28599255, 63>>, <<335181460, 519509359, 18>>, <<320690308, 317409765, 25>>>>,
       <<<<319826225, 435083910, 45>>, <<10372929, 154961757, 21>>, <<340242009, 492520791, 45>>, <<320482800, 394884398, 21>>>>,
       <<<<275484637, 54935698, 16>>, <<496256380, 345442347, 56>>, <<261960204, 109993261, 54>>, <<285227289, 369030079, 31>>>>>>,
     <<<<<<330327616, 204607585, 51>>, <<223974732, 381157864, 25>>, <<285601036, 37204505, 21>>, <<13133090, 374286866, 22>>>>,
       <<<<378733058, 312019121, 59>>, <<172040286, 408220994, 53>>, <<498361147, 117638867, 53>>, <<283666345, 170869685, 24>>>>,
       <<<<256003402, 139223657, 50>>, <<317488486, 325258453, 58>>, <<167697896, 290017645, 17>>, <<219591155, 484838435, 20>>>>>>,
     <<<<<<132100520, 223892808, 26>>, <<128384467, 1141015, 1>>, <<60805217, 453590770, 61>>, <<189630835, 63542515, 22>>>>,
       <<<<260436098, 19348002, 7>>, <<497701188, 1487981, 16>>, <<301877518, 378474108, 7>>, <<85522818, 453751068, 30>>>>,
       <<<<358647353, 136520930, 49>>, <<227784165, 408841603, 8>>, <<121099832, 75694200, 21>>, <<213006829, 474599365, 21>>>>>>,
     <<<<<<136179783, 464611024, 42>>, <<153943220, 462351283, 5>>, <<167437977, 99797584, 15>>, <<308736569, 530980320, 17>>>>,
       <<<<25593443, 393169795, 49>>, <<375234969, 372873598, 53>>, <<420825871, 497849904, 49>>, <<170156259, 212097793, 29>>>>,
       <<<<89999508, 460116804, 15>>, <<389469703, 445593096, 41>>, <<314342410, 404813821, 44>>, <<536347915, 281083073, 25>>>>>>,
     <<<<<<503744690, 180593741, 3>>, <<61752483, 374782803, 11>>, <<79870435, 467447932, 6>>, <<419655214, 89694641, 29>>>>,
       <<<<353988437, 439015026, 33>>, <<531109557, 53604711, 43>>, <<198763500, 10141964, 13>>, <<91509628, 264149773, 28>>>>,
       <<<<191339795, 499126499, 46>>, <<212337588, 522960021, 40>>, <<297288118, 310273022, 56>>, <<345786771, 290433961, 16>>>>>>,
     <<<<<<182670992, 114578829, 19>>, <<32693361, 332608476, 31>>, <<510159665, 86568460, 47>>, <<332890679, 183693917, 11>>>>,
       <<<<94702327, 408314762, 36>>, <<517569209, 290542445, 38>>, <<48336212, 204571554, 38>>, <<222710604, 114912197, 1>>>>,
       <<<<78216866, 385161369, 59>>, <<47075670, 56889127, 61>>, <<24726473, 149057141, 26>>, <<453502360, 193529942, 22>>>>>>,
     <<<<<<361579869, 441536704, 34>>, <<521164115, 370078858, 7>>, <<332906803, 149421870, 7>>, <<57679923, 526048372, 17>>>>,
       <<<<232871244, 230232466, 43>>, <<527660448, 81611874, 39>>, <<169678810, 35193165, 5>>, <<23153716, 125188696, 24>>>>,
       <<<<189347353, 70465180, 40>>, <<225131103, 133765259, 15>>, <<248551416, 509916151, 23>>, <<59814044, 483319202, 8>>>>>>,
     <<<<<<309009837, 350790309, 18>>, <<412093377, 119826982, 2>>, <<39226185, 259491196, 32>>, <<506087289, 57004928, 19>>>>,
       <<<<412574733, 285206126, 40>>, <<415388460, 201855929, 27>>, <<64588679, 182538706, 55>>, <<336767053, 159703768, 5>>>>,
       <<<<268851450, 369738268, 20>>, <<211765434, 159932288, 33>>, <<177914879, 410664552, 43>>, <<516432612, 491522759, 13>>>>>>
   >>,
   <<
     <<<<<<128124788, 530099469, 19>>, <<320537579, 457969490, 27>>, <<466644242, 21529658, 62>>, <<2764233, 234485496, 20>>>>,
       <<<<43911695, 408673583, 25>>, <<272201455, 240949048, 37>>, <<450436979, 48696766, 23>>, <<95315076, 414726420, 31>>>>,
       <<<<327211544, 81123253, 0>>, <<260439688, 205673370, 4>>, <<32653201, 348666966, 46>>, <<411609841, 113154662, 14>>>>>>,
     <<<<<<206015672, 473135090, 37>>, <<408746637, 239437982, 13>>, <<466139999, 455006993, 13>>, <<340250580, 50222082, 7>>>>,
       <<<<12488667, 64992063, 3>>, <<144711178, 299357849, 45>>, <<469173871, 259638447, 27>>, <<334642449, 83850922, 19>>>>,
       <<<<468992942, 525018352, 3>>, <<208184086, 198736232, 20>>, <<479332667, 33805832, 42>>, <<528917684, 163505786, 29>>>>>>,
     <<<<<<26754358, 359252997, 51>>, <<37671471, 26180219, 54>>, <<524893545, 183499082, 4>>, <<513810742, 236916999, 18>>>>,
       <<<<257332874, 199071969, 9>>, <<87960600, 37446147, 52>>, <<135302942, 340695960, 33>>, <<499136001, 136082309, 13>>>>,
       <<<<63686012, 391057222, 54>>, <<528949769, 145582325, 14>>, <<497270352, 367862050, 1>>, <<395275849, 96913834, 6>>>>>>,
     <<<<<<69618624, 332952951, 2>>, <<396411139, 84404111, 19>>, <<439434198, 399958588, 57>>, <<121978068, 52486120, 27>>>>,
       <<<<240307802, 455752089, 13>>, <<387733072, 18650412, 21>>, <<151981031, 113187875, 38>>, <<90973563, 498555891, 28>>>>,
       <<<<192825388, 333816342, 33>>, <<497766413, 393408461, 3>>, <<77261621, 319528437, 27>>, <<55754629, 289263563, 3>>>>>>,
     <<<<<<124294853, 108519878, 54>>, <<176701413, 32176311, 26>>, <<374206761, 220368545, 28>>, <<89013894, 362214949, 19>>>>,
       <<<<103754133, 377093680, 13>>, <<353385340, 387891269, 37>>, <<281509674, 117817416, 62>>, <<29730676, 448640956, 13>>>>,
       <<<<248417486, 418649531, 26>>, <<76821780, 265546588, 60>>, <<394355158, 264998825, 29>>, <<415507847, 32252260, 23>>>>>>,
     <<<<<<449113068, 492827130, 53>>, <<282606528, 69063448, 19>>, <<7803917, 75242222, 53>>, <<92572911, 432006554, 5>>>>,
       <<<<412485317, 195199131, 29>>, <<492156401, 458810107, 46>>, <<207523533, 57426824, 32>>, <<194706360, 477389863, 3>>>>,
       <<<<236394206, 15748052, 3>>, <<142380268, 319543457, 46>>, <<375382141, 161118132, 17>>, <<202589526, 437130370, 8>>>>>>,
     <<<<<<502649590, 456320950, 17>>, <<514395946, 349024774, 5>>, <<163748292, 220285056, 26>>, <<370520111, 311889311, 3>>>>,
       <<<<283295734, 128479004, 20>>, <<172777542, 345013313, 14>>, <<466001896, 295897391, 31>>, <<262407291, 37865136, 20>>>>,
       <<<<252180544, 93154083, 47>>, <<50389770, 42999069, 31>>, <<416477654, 189928285, 63>>, <<309427307, 313170002, 13>>>>>>,
     <<<<<<434157097, 246624904, 40>>, <<500378675, 443304953, 2>>, <<130617784, 13383837, 16>>, <<15767738, 256088641, 21>>>>,
       <<<<533272161, 511494104, 36>>, <<475010625, 389682017, 41>>, <<190977188, 209358339, 30>>, <<441790746, 477256503, 9>>>>,
       <<<<39206674, 489852583, 7>>, <<329179186, 464759378, 31>>, <<66022037, 345634584, 31>>, <<367673568, 96872758, 27>>>>>>
   >>,
   <<
     <<<<<<247355652, 31855797, 37>>, <<339671411, 58422721, 55>>, <<280247368, 271580844, 59>>, <<331273498, 219349261, 5>>>>,
       <<<<281692941, 426018111, 41>>, <<112780967, 117045020, 41>>, <<497580310, 201539400, 18>>, <<508082457, 505893147, 8>>>>,
       <<<<61299655, 141696684, 35>>, <<216889907, 186336826, 63>>, <<69716019, 447934261, 7>>, <<366793330, 51690428, 12>>>>>>,
     <<<<<<200857170, 387727458, 7>>, <<11722220, 392820091, 43>>, <<131105031, 37318256, 10>>, <<467834155, 495834204, 20>>>>,
       <<<<359171104, 360612088, 54>>, <<259201716, 364762690, 6>>, <<523557960, 535283702, 19>>, <<98613186, 372442898, 17>>>>,
       <<<<391777483, 173017933, 32>>, <<467284050, 47266297, 30>>, <<169747627, 513902787, 57>>, <<493400947, 51082793, 30>>>>>>,
     <<<<<<339076762, 314101476, 28>>, <<181332846, 532544217, 54>>, <<434751247, 506220670, 4>>, <<287367491, 132781464, 6>>>>,
       <<<<200177301, 297948063, 17>>, <<65654328, 535702285, 18>>, <<344157313, 82804942, 28>>, <<107794107, 856716, 14>>>>,
       <<<<387649914, 503951624, 53>>, <<203008022, 75539998, 56>>, <<362563729, 252108676, 51>>, <<348820036, 317492298, 4>>>>>>,
     <<<<<<474209101, 90643221, 25>>, <<264798045, 327580341, 18>>, <<295795330, 461977994, 2>>, <<202050432, 423316780, 18>>>>,
       <<<<382570133, 192793276, 14>>, <<303632941, 219719898, 44>>, <<190434075, 456819172, 39>>, <<479728004, 150485978, 18>>>>,
       <<<<211284813, 33252656, 41>>, <<491293321, 112767912, 44>>, <<483553043, 502258510, 48>>, <<138017269, 57163544, 15>>>>>>,
     <<<<<<449048746, 255796741, 48>>, <<213569307, 399621692, 2>>, <<56201741, 514040831, 38>>, <<245181652, 251190261, 6>>>>,
       <<<<256496616, 242211430, 9>>, <<450539585, 210603471, 42>>, <<197036730, 271931678, 7>>, <<311788820, 399501750, 22>>>>,
       <<<<66290639, 282481420, 41>>, <<149677673, 47017294, 57>>, <<96046443, 225881570, 57>>, <<186785611, 433804127, 20>>>>>>,
     <<<<<<512986645, 531177758, 34>>, <<320177703, 73418344, 50>>, <<297842847, 130242879, 25>>, <<518775501, 477521023, 7>>>>,
       <<<<57971623, 325482403, 56>>, <<157679763, 525796974, 45>>, <<37775921, 39649405, 6>>, <<244346080, 192431885, 11>>>>,
       <<<<165637745, 487510614, 38>>, <<412233753, 254632393, 57>>, <<37016915, 24678637, 37>>, <<460072244, 443767861, 25>>>>>>,
     <<<<<<411519884, 337772778, 42>>, <<208611368, 167653980, 43>>, <<79026998, 332282426, 19>>, <<339935427, 111437769, 26>>>>,
       <<<<112309966, 526843956, 60>>, <<495435435, 504178168, 44>>, <<230154249, 262586533, 47>>, <<258891594, 501663246, 5>>>>,
       <<<<416455037, 297917016, 23>>, <<169469148, 62320586, 41>>, <<422540381, 250482468, 21>>, <<360497803, 53834253, 17>>>>>>,
     <<<<<<176766152, 29448033, 42>>, <<151164543, 506465139, 22>>, <<267078174, 327652190, 18>>, <<142886282, 186366777, 10>>>>,
       <<<<208635651, 471320509, 8>>, <<480083869, 11557554, 28>>, <<374139290, 470562414, 15>>, <<291787537, 310455617, 31>>>>,
       <<<<61294926, 144477665, 19>>, <<483511711, 517393574, 39>>, <<65005823, 22505094, 13>>, <<31030000, 399017152, 0>>>>>>
   >>,
   <<
     <<<<<<468253313, 346658717, 57>>, <<131412088, 304498206, 42>>, <<224265074, 115142387, 54>>, <<348022013, 354542382, 28>>>>,
       <<<<117135487, 72235806, 42>>, <<314243725, 241134119, 42>>, <<415070428, 75622517, 1>>, <<361786152, 67892968, 4>>>>,
       <<<<44987207, 444305428, 50>>, <<153671316, 452107680, 38>>, <<356438538, 141284446, 7>>, <<351689053, 190617452, 17>>>>>>,
     <<<<<<142543179, 28670257, 3>>, <<527716287, 15068683, 28>>, <<137894104, 253745941, 7>>, <<138910689, 434369956, 12>>>>,
       <<<<358143204, 24795327, 35>>, <<311049958, 463444181, 16>>, <<497923833, 38502598, 22>>, <<216751007, 9683629, 8>>>>,
       <<<<297021921, 370927813, 2>>, <<194419193, 534393121, 0>>, <<474961790, 500118141, 41>>, <<123118464, 353077314, 5>>>>>>,
     <<<<<<283748149, 14384476, 12>>, <<213768680, 124657822, 22>>, <<70956413, 252192527, 58>>, <<101639196, 461729685, 0>>>>,
       <<<<367322197, 491350136, 55>>, <<321113792, 158111776, 61>>, <<260090605, 340204603, 26>>, <<184974056, 193524654, 19>>>>,
       <<<<211373221, 231306780, 11>>, <<123268440, 148140759, 38>>, <<224126210, 386946343, 47>>, <<331833595, 58417540, 11>>>>>>,
     <<<<<<76089349, 183813405, 16>>, <<523755267, 411954613, 27>>, <<150289635, 75094116, 28>>, <<94150127, 487387023, 0>>>>,
       <<<<145784865, 240280034, 1>>, <<376831348, 463389939, 9>>, <<175657568, 49925718, 46>>, <<443205826, 390867558, 6>>>>,
       <<<<242535418, 501551873, 63>>, <<405678289, 494204818, 10>>, <<221987390, 13502453, 43>>, <<494628175, 370998137, 5>>>>>>,
     <<<<<<15627059, 58798226, 60>>, <<174599552, 524594866, 37>>, <<383584178, 406831130, 25>>, <<184833492, 407529702, 0>>>>,
       <<<<374431110, 377401079, 21>>, <<415874316, 440649022, 54>>, <<403691133, 406663587, 24>>, <<257548079, 242162393, 25>>>>,
       <<<<297376205, 485364613, 35>>, <<122923062, 378330519, 19>>, <<498265019, 192290775, 63>>, <<351730520, 96137396, 0>>>>>>,
     <<<<<<482955126, 347022979, 2>>, <<378577275, 284820925, 59>>, <<483916989, 461213385, 32>>, <<204955142, 115413416, 16>>>>,
       <<<<56445183, 314280188, 7>>, <<363544296, 515870993, 47>>, <<212481807, 253137997, 5>>, <<158833730, 115534998, 10>>>>,
       <<<<280586554, 182335555, 40>>, <<350295546, 97839270, 34>>, <<3102625, 528472355, 18>>, <<84544960, 153397561, 27>>>>>>,
     <<<<<<7239841, 362956159, 31>>, <<201775287, 398188561, 15>>, <<157966590, 100477119, 23>>, <<460025793, 324552297, 22>>>>,
       <<<<382082012, 243043446, 7>>, <<479644792, 71649848, 18>>, <<318240971, 169998478, 59>>, <<399871379, 13025915, 4>>>>,
       <<<<388958191, 463751002, 6>>, <<352522993, 525440102, 50>>, <<61401905, 374182021, 26>>, <<355973906, 355597361, 15>>>>>>,
     <<<<<<480478862, 415650184, 62>>, <<428577298, 337861196, 41>>, <<405214515, 364973276, 36>>, <<464901653, 177826543, 3>>>>,
       <<<<53218470, 366308773, 6>>, <<462228991, 524007708, 11>>, <<163086047, 502564960, 21>>, <<360220850, 327975836, 24>>>>,
       <<<<427179609, 176892967, 59>>, <<463979681, 377611356, 4>>, <<149654159, 459358028, 29>>, <<266050064, 112516710, 18>>>>>>
   >>,
   <<
     <<<<<<237588060, 435245988, 50>>, <<308484861, 64526921, 38>>, <<470355122, 488554449, 4>>, <<360396718, 470683747, 18>>>>,
       <<<<456593341, 320003870, 25>>, <<444995519, 274069655, 8>>, <<413095822, 465680369, 39>>, <<158151163, 12390813, 11>>>>,
       <<<<270083698, 415625036, 24>>, <<304367074, 4262818, 21>>, <<120392114, 142329389, 54>>, <<114378468, 279474479, 1>>>>>>,
     <<<<<<354465759, 183662700, 44>>, <<296234181, 387701923, 54>>, <<514766003, 282132320, 0>>, <<335312716, 88724571, 23>>>>,
       <<<<89367019, 276627484, 17>>, <<227749748, 317408045, 25>>, <<323479919, 489427373, 42>>, <<91147033, 417689591, 8>>>>,
       <<<<221171022, 100625588, 2>>, <<142618133, 299702003, 19>>, <<174766069, 525532101, 29>>, <<336685067, 425617575, 14>>>>>>,
     <<<<<<458073821, 148985944, 47>>, <<313399985, 385921693, 46>>, <<175685648, 386428903, 15>>, <<150171681, 495842770, 21>>>>,
       <<<<351102933, 288643492, 54>>, <<34188487, 155876658, 59>>, <<43952812, 129863465, 61>>, <<45401861, 343427439, 6>>>>,
       <<<<226180575, 315780376, 58>>, <<72729776, 403443179, 58>>, <<483609853, 125535871, 14>>, <<333911373, 476099611, 15>>>>>>,
     <<<<<<411956231, 130129242, 48>>, <<139590126, 515891340, 33>>, <<357344046, 46874965, 63>>, <<105267074, 99285219, 17>>>>,
       <<<<105290945, 532480908, 2>>, <<181533978, 131865848, 6>>, <<62501431, 478662444, 41>>, <<247539583, 296858036, 14>>>>,
       <<<<525506258, 287778333, 33>>, <<233705121, 286106966, 9>>, <<468088297, 145809447, 32>>, <<100090462, 502813325, 10>>>>>>,
     <<<<<<91173038, 288365894, 24>>, <<436771247, 451471160, 3>>, <<314253260, 198658158, 25>>, <<533411847, 6285600, 17>>>>,
       <<<<411147327, 274358461, 28>>, <<535450893, 406299436, 55>>, <<105666267, 395878345, 62>>, <<472933495, 660281, 19>>>>,
       <<<<125469678, 404712944, 28>>, <<474425169, 237446105, 9>>, <<368856272, 140616101, 39>>, <<320046077, 364638499, 30>>>>>>,
     <<<<<<464310179, 227078414, 22>>, <<402873159, 24904740, 12>>, <<17825602, 137366088, 41>>, <<313155973, 443662442, 14>>>>,
       <<<<436417926, 14252410, 12>>, <<216001752, 324915232, 36>>, <<103787188, 254576846, 42>>, <<371562497, 66449244, 23>>>>,
       <<<<213298096, 235822629, 63>>, <<290327575, 210502066, 21>>, <<86862712, 37983864, 1>>, <<34939824, 45081744, 2>>>>>>,
     <<<<<<362435388, 511820038, 32>>, <<333698393, 525726208, 30>>, <<192424309, 410595272, 43>>, <<26595866, 457791751, 9>>>>,
       <<<<216243060, 435846348, 0>>, <<10485023, 14006117, 36>>, <<521433159, 420733569, 25>>, <<425330617, 298266698, 7>>>>,
       <<<<420888030, 296864256, 60>>, <<297373596, 409409225, 38>>, <<208442389, 501953154, 48>>, <<445926496, 439306359, 2>>>>>>,
     <<<<<<315528212, 45876583, 11>>, <<455665709, 360396488, 14>>, <<488768604, 313455620, 34>>, <<140621054, 487153305, 8>>>>,
       <<<<526779819, 367139044, 59>>, <<392650300, 92224536, 35>>, <<83093813, 448177273, 54>>, <<323698064, 314378495, 13>>>>,
       <<<<105215017, 510366849, 53>>, <<223191756, 387405280, 31>>, <<256986827, 533317422, 56>>, <<334476391, 384340878, 0>>>>>>
   >>,
   <<
     <<<<<<442215159, 509783014, 4>>, <<239523513, 447858765, 43>>, <<282841105, 188393861, 26>>, <<348634791, 251578899, 19>>>>,
       <<<<471177712, 131339816, 17>>, <<379871322, 193652782, 11>>, <<312400311, 508482574, 17>>, <<181475699, 177190518, 27>>>>,
       <<<<65843879, 362667943, 12>>, <<425967643, 212617553, 25>>, <<212350839, 336906855, 12>>, <<256158694, 136283449, 25>>>>>>,
     <<<<<<217702588, 493532779, 26>>, <<274260174, 430455741, 42>>, <<313395052, 443035312, 39>>, <<271672314, 202536882, 31>>>>,
       <<<<266090622, 84459003, 49>>, <<129718750, 279293869, 37>>, <<459351803, 484689744, 0>>, <<289003352, 291732743, 12>>>>,
       <<<<446833208, 321883624, 59>>, <<133619529, 371320012, 46>>, <<157478595, 25170700, 15>>, <<21661490, 38761263, 28>>>>>>,
     <<<<<<287692643, 476128115, 5>>, <<492722096, 443402582, 46>>, <<511177880, 53277112, 50>>, <<58513834, 209608303, 4>>>>,
       <<<<452399074, 446762756, 50>>, <<74605671, 498781524, 18>>, <<449210776, 280862726, 54>>, <<345834133, 62549473, 9>>>>,
       <<<<102070755, 281508143, 43>>, <<521160335, 19841219, 22>>, <<11000371, 506839079, 54>>, <<71078409, 510650988, 0>>>>>>,
     <<<<<<89287671, 354087188, 11>>, <<312073452, 247220382, 24>>, <<365200225, 41479320, 39>>, <<471313421, 2652664, 20>>>>,
       <<<<84678622, 318898754, 58>>, <<212094686, 59097866, 6>>, <<159095279, 384496989, 0>>, <<376045184, 257137732, 24>>>>,
       <<<<360488281, 104261023, 10>>, <<45295968, 116548204, 46>>, <<188271610, 414062437, 31>>, <<311371548, 339421513, 16>>>>>>,
     <<<<<<360841123, 291907316, 2>>, <<30488451, 52501281, 48>>, <<105338421, 152817946, 10>>, <<119313134, 527996570, 22>>>>,
       <<<<388053055, 73729407, 24>>, <<237979741, 316534498, 22>>, <<71068090, 137009137, 59>>, <<477276758, 485290538, 15>>>>,
       <<<<347665727, 307914383, 28>>, <<417075977, 232324553, 18>>, <<496849842, 225757219, 27>>, <<18974444, 67549704, 8>>>>>>,
     <<<<<<530559811, 236735271, 0>>, <<87893194, 476526945, 52>>, <<143720653, 272141799, 28>>, <<381021472, 134629977, 28>>>>,
       <<<<394562430, 294091226, 20>>, <<173806291, 506611636, 59>>, <<263615434, 329240664, 0>>, <<273057606, 451584621, 14>>>>,
       <<<<179577722, 428646267, 51>>, <<231166327, 341837011, 45>>, <<89208744, 322719282, 37>>, <<322658356, 277357107, 2>>>>>>,
     <<<<<<348665651, 480213629, 38>>, <<21299018, 527043299, 48>>, <<495845909, 427085233, 0>>, <<411115943, 101497761, 25>>>>,
       <<<<523229201, 519089362, 10>>, <<389476266, 294511187, 16>>, <<349615162, 315924266, 1>>, <<224542788, 198744695, 21>>>>,
       <<<<163635329, 307004589, 45>>, <<387529055, 440274504, 5>>, <<420922548, 155130974, 19>>, <<271640846, 352126837, 27>>>>>>,
     <<<<<<152815534, 203225958, 23>>, <<518468815, 420861017, 57>>, <<10167933, 394868802, 61>>, <<327175081, 527447586, 7>>>>,
       <<<<465082161, 144104647, 61>>, <<314917955, 53509373, 46>>, <<39454586, 179179119, 59>>, <<514062696, 461102212, 29>>>>,
       <<<<153467607, 474668856, 43>>, <<184352801, 176588083, 30>>, <<369217106, 80339306, 3>>, <<175850170, 245546968, 5>>>>>>
   >>,
   <<
     <<<<<<407614915, 189448148, 4>>, <<23667458, 373481499, 49>>, <<116579698, 310781361, 59>>, <<68814347, 98203, 5>>>>,
       <<<<223582411, 525946860, 6>>, <<535540236, 508712128, 1>>, <<496831449, 343944231, 21>>, <<400830623, 288695460, 10>>>>,
       <<<<438911812, 197061244, 45>>, <<310918864, 275775056, 11>>, <<325887387, 493809461, 30>>, <<127448829, 194103884, 14>>>>>>,
     <<<<<<64474016, 532565740, 58>>, <<517714771, 16466748, 43>>, <<386240354, 430334717, 25>>, <<250217001, 517996361, 24>>>>,
       <<<<32086105, 349547663, 17>>, <<404983171, 141700718, 30>>, <<388062238, 229688753, 54>>, <<99965062, 526283258, 0>>>>,
       <<<<503606921, 535817842, 48>>, <<284647757, 135900395, 49>>, <<227533023, 358387887, 1>>, <<257107419, 282362509, 3>>>>>>,
     <<<<<<409860208, 515399258, 22>>, <<280916171, 327073511, 10>>, <<349524442, 373866951, 36>>, <<276830030, 372859506, 27>>>>,
       <<<<19710397, 509707058, 21>>, <<55561582, 61416199, 18>>, <<313265944, 345579741, 12>>, <<501863134, 2054181, 16>>>>,
       <<<<69293212, 50099796, 24>>, <<206018335, 189730189, 54>>, <<497611127, 173560034, 1>>, <<504258499, 370105824, 18>>>>>>,
     <<<<<<7006251, 391853379, 57>>, <<495037341, 199074230, 19>>, <<434239396, 312068351, 7>>, <<415090022, 497222492, 12>>>>,
       <<<<310196214, 337359761, 32>>, <<285405841, 462228601, 23>>, <<148665633, 367331473, 6>>, <<90504576, 397416333, 29>>>>,
       <<<<413851856, 316184471, 50>>, <<213761480, 99602078, 8>>, <<380998400, 145946481, 24>>, <<249997690, 85030995, 26>>>>>>,
     <<<<<<263291670, 328858541, 11>>, <<255066792, 331013942, 23>>, <<339700728, 202560725, 1>>, <<192082866, 440576218, 30>>>>,
       <<<<481709281, 143902986, 22>>, <<492001303, 523127487, 44>>, <<347665355, 151569259, 63>>, <<233018726, 180335400, 21>>>>,
       <<<<100358857, 5688429, 2>>, <<429559165, 31661489, 19>>, <<166856300, 429241766, 19>>, <<498413802, 145113337, 15>>>>>>,
     <<<<<<106681931, 267897167, 23>>, <<49217446, 136822386, 11>>, <<473503616, 320450546, 20>>, <<75233932, 105505003, 1>>>>,
       <<<<26287946, 392673784, 19>>, <<319589734, 342274359, 28>>, <<25811144, 383888518, 11>>, <<389233995, 221731671, 19>>>>,
       <<<<445109441, 63994766, 5>>, <<258634017, 284859555, 27>>, <<102556082, 46684254, 62>>, <<394460713, 237758778, 3>>>>>>,
     <<<<<<508938665, 67585057, 4>>, <<49620690, 230584265, 14>>, <<392549745, 227533663, 39>>, <<203790268, 269822629, 1>>>>,
       <<<<335597081, 496953438, 30>>, <<178300756, 205787630, 44>>, <<376585381, 501099664, 63>>, <<366037144, 303596925, 27>>>>,
       <<<<146248471, 49008854, 51>>, <<157944740, 480746461, 22>>, <<290889706, 419337300, 4>>, <<248831195, 234708971, 24>>>>>>,
     <<<<<<330114350, 206988618, 22>>, <<366713254, 185507676, 37>>, <<1860383, 198478859, 60>>, <<122756837, 195491576, 23>>>>,
       <<<<104435221, 478431640, 40>>, <<406448026, 79453766, 55>>, <<255504851, 320411612, 20>>, <<30703686, 286821260, 29>>>>,
       <<<<115637920, 322207862, 14>>, <<77640914, 21500359, 33>>, <<73255513, 234086525, 21>>, <<357036591, 345354233, 26>>>>>>
   >>,
   <<
     <<<<<<158259282, 375492208, 58>>, <<1196853, 390495427, 20>>, <<209613360, 99662861, 26>>, <<386182981, 512119892, 0>>>>,
       <<<<236413551, 96380694, 37>>, <<130185701, 304973565, 23>>, <<198474884, 299637604, 35>>, <<493458094, 249452529, 12>>>>,
       <<<<474951652, 14302216, 53>>, <<130478621, 17624075, 50>>, <<44077857, 512226679, 53>>, <<26706075, 440377588, 7>>>>>>,
     <<<<<<75276371, 281589145, 62>>, <<513181212, 441760818, 32>>, <<272694424, 433741494, 2>>, <<494638390, 151169850, 28>>>>,
       <<<<249383118, 322469715, 22>>, <<61228757, 482831611, 57>>, <<381904424, 294597006, 37>>, <<504295171, 260591870, 8>>>>,
       <<<<231819984, 13750897, 31>>, <<85715245, 441577839, 26>>, <<333748405, 465890975, 12>>, <<114951766, 452377742, 10>>>>>>,
     <<<<<<373983666, 88405549, 35>>, <<391741, 335135896, 50>>, <<178768563, 171197303, 0>>, <<21628082, 181622665, 0>>>>,
       <<<<73252052, 359430246, 60>>, <<12393166, 41632247, 52>>, <<270464281, 11582345, 22>>, <<227784161, 159471421, 22>>>>,
       <<<<342411001, 310728492, 22>>, <<204894852, 187767064, 61>>, <<373367236, 309580365, 24>>, <<388930056, 513482790, 4>>>>>>,
     <<<<<<66878150, 481855584, 11>>, <<172623082, 223703679, 28>>, <<266031896, 178954804, 54>>, <<162099230, 27658519, 13>>>>,
       <<<<433672466, 306957186, 28>>, <<363497648, 296908824, 15>>, <<113229191, 397295496, 2>>, <<209595593, 133414041, 12>>>>,
       <<<<353111101, 247821844, 59>>, <<57595499, 261270350, 30>>, <<133915201, 317426180, 40>>, <<517439719, 456995100, 8>>>>>>,
     <<<<<<101039085, 447859054, 38>>, <<347154416, 405442535, 47>>, <<59057635, 511100293, 42>>, <<522642775, 417072582, 29>>>>,
       <<<<335560960, 51729606, 17>>, <<3840202, 93042608, 54>>, <<109908087, 223741982, 31>>, <<326185664, 197473468, 11>>>>,
       <<<<226215253, 54508118, 59>>, <<240696438, 318314810, 27>>, <<124767189, 267623503, 58>>, <<303465826, 13170241, 28>>>>>>,
     <<<<<<211744607, 272040667, 26>>, <<430925224, 318812948, 18>>, <<196434524, 527124416, 34>>, <<137485421, 465046800, 22>>>>,
       <<<<62726648, 339378063, 22>>, <<127630642, 63174411, 33>>, <<302888347, 23677179, 45>>, <<23151987, 295332221, 12>>>>,
       <<<<172272641, 310190114, 13>>, <<428228737, 233424546, 22>>, <<218131146, 70922262, 28>>, <<80368315, 275111519, 28>>>>>>,
     <<<<<<109716763, 82786725, 56>>, <<84665204, 262463449, 43>>, <<349973899, 293161149, 58>>, <<476699780, 397822137, 16>>>>,
       <<<<218491013, 484368199, 44>>, <<166511205, 501827168, 27>>, <<188527282, 456118538, 50>>, <<491396759, 55918356, 6>>>>,
       <<<<153148379, 243602382, 53>>, <<376301638, 456131188, 39>>, <<383075735, 36842253, 48>>, <<23553585, 177938853, 13>>>>>>,
     <<<<<<338430854, 442814159, 22>>, <<526856966, 254066546, 57>>, <<174931243, 361663382, 17>>, <<20964728, 83817758, 16>>>>,
       <<<<259716046, 334416138, 36>>, <<213757884, 109935355, 2>>, <<239795909, 367198672, 26>>, <<408791082, 157681019, 0>>>>,
       <<<<78992932, 93904371, 17>>, <<289517240, 223018929, 62>>, <<382053077, 430183095, 54>>, <<295162217, 227548419, 26>>>>>>
   >>,
   <<
     <<<<<<241362285, 67440851, 60>>, <<507674009, 531986008, 40>>, <<381898867, 415195, 14>>, <<154402034, 382313967, 20>>>>,
       <<<<210582622, 25873283, 50>>, <<69749555, 522592883, 8>>, <<2635868, 399845785, 51>>, <<306827487, 229087908, 14>>>>,
       <<<<164377650, 362610668, 19>>, <<11461596, 311947109, 7>>, <<261332399, 20656367, 28>>, <<447161961, 276930806, 2>>>>>>,
     <<<<<<519751209, 31119245, 6>>, <<332195355, 485156727, 26>>, <<76150544, 369914765, 55>>, <<291307673, 157019817, 3>>>>,
       <<<<316743340, 31735873, 11>>, <<139083982, 242491829, 49>>, <<157462483, 151043748, 28>>, <<193218794, 443127185, 12>>>>,
       <<<<240051446, 284798273, 18>>, <<331225997, 9789166, 38>>, <<10107688, 30325081, 19>>, <<216188206, 252841374, 2>>>>>>,
     <<<<<<73229389, 174036992, 24>>, <<359719408, 355706951, 15>>, <<267635646, 260976518, 62>>, <<298943206, 149492797, 7>>>>,
       <<<<431032629, 512884704, 49>>, <<417775114, 310225681, 55>>, <<76613189, 432346381, 13>>, <<282048919, 428958792, 17>>>>,
       <<<<203203338, 507296967, 0>>, <<256529032, 41207311, 7>>, <<197965760, 126726580, 58>>, <<164942909, 103953998, 22>>>>>>,
     <<<<<<115509618, 33981300, 13>>, <<38993279, 530331425, 9>>, <<128264480, 500316590, 3>>, <<385929717, 495574839, 10>>>>,
       <<<<300249084, 415780288, 38>>, <<148268972, 288046123, 10>>, <<151850564, 433078567, 50>>, <<487924307, 3027727, 31>>>>,
       <<<<296196134, 466496240, 3>>, <<167964420, 157155060, 51>>, <<443749638, 436900944, 43>>, <<288938960, 533750217, 27>>>>>>,
     <<<<<<17208333, 223094762, 11>>, <<450933506, 301521944, 43>>, <<167268961, 494036403, 21>>, <<354403899, 118270409, 13>>>>,
       <<<<487464714, 122054859, 45>>, <<38183580, 261742213, 28>>, <<201786510, 398551483, 58>>, <<309275479, 195714376, 18>>>>,
       <<<<92152397, 449708357, 59>>, <<205204453, 248341826, 42>>, <<456830292, 51430065, 48>>, <<297395299, 162238224, 10>>>>>>,
     <<<<<<308510557, 35565371, 44>>, <<381378202, 161802878, 56>>, <<501818148, 283586776, 42>>, <<294570258, 228132300, 4>>>>,
       <<<<467003068, 113923871, 25>>, <<398788224, 27925058, 14>>, <<187753553, 235368551, 58>>, <<222786283, 306334131, 16>>>>,
       <<<<214169948, 242557754, 33>>, <<276134858, 140543455, 60>>, <<204298381, 402033413, 1>>, <<250134336, 370689775, 8>>>>>>,
     <<<<<<83357058, 428038105, 35>>, <<144386837, 419496711, 42>>, <<260677789, 439023105, 0>>, <<303260609, 295981430, 21>>>>,
       <<<<528875752, 337464165, 63>>, <<313402930, 296757699, 23>>, <<157671517, 144204989, 36>>, <<49972149, 198937252, 18>>>>,
       <<<<375677430, 149703028, 59>>, <<494461285, 95487642, 45>>, <<110806571, 243651387, 51>>, <<139186626, 377909073, 20>>>>>>,
     <<<<<<42405531, 167089923, 37>>, <<32080908, 170138803, 39>>, <<453062889, 294712725, 57>>, <<172342508, 12514912, 7>>>>,
       <<<<444745559, 207510943, 63>>, <<83683765, 181453624, 24>>, <<21242781, 451023214, 21>>, <<62994697, 220350284, 13>>>>,
       <<<<47470079, 493542226, 33>>, <<488846592, 206639234, 0>>, <<412217156, 246047865, 27>>, <<536709651, 355594018, 8>>>>>>
   >>,
   <<
     <<<<<<267313230, 457131965, 26>>, <<464236263, 11336695, 29>>, <<269163105, 391490932, 36>>, <<41326029, 17242860, 6>>>>,
       <<<<330590912, 166767765, 59>>, <<34694409, 50790749, 51>>, <<84240142, 111161175, 30>>, <<4477768, 121063095, 21>>>>,
       <<<<212562084, 533449703, 1>>, <<261797271, 396254678, 21>>, <<263586094, 152724205, 35>>, <<167923005, 19854752, 2>>>>>>,
     <<<<<<98308653, 79340884, 35>>, <<130558056, 60550818, 57>>, <<72508570, 102475958, 15>>, <<251708212, 275873351, 4>>>>,
       <<<<375065265, 468244988, 7>>, <<241893686, 400932312, 30>>, <<316314289, 52187305, 61>>, <<159483238, 388863913, 23>>>>,
       <<<<7288405, 56646821, 5>>, <<292338077, 519877568, 49>>, <<296583400, 459273076, 34>>, <<266795122, 17316725, 1>>>>>>,
     <<<<<<396072220, 319736390, 4>>, <<415278073, 258607553, 18>>, <<54841209, 370283922, 59>>, <<300971801, 173589768, 25>>>>,
       <<<<265859009, 312238089, 62>>, <<363728327, 400129233, 7>>, <<7342217, 401850900, 25>>, <<250186788, 114569523, 18>>>>,
       <<<<72515563, 463510800, 52>>, <<235584364, 238575098, 14>>, <<511793657, 483205848, 46>>, <<120972840, 489634103, 9>>>>>>,
     <<<<<<193418772, 116777945, 57>>, <<331927152, 359410888, 60>>, <<281921782, 401668782, 12>>, <<185801544, 386963351, 4>>>>,
       <<<<443440359, 334679736, 44>>, <<295987286, 490736783, 50>>, <<291707917, 382714357, 8>>, <<53294020, 89214437, 12>>>>,
       <<<<418115383, 486021787, 7>>, <<117641604, 468048030, 39>>, <<121976379, 273930393, 49>>, <<178529196, 350650916, 12>>>>>>,
     <<<<<<516756410, 393189058, 4>>, <<448072589, 253200049, 39>>, <<109991249, 144240672, 14>>, <<465704021, 357577692, 7>>>>,
       <<<<422679082, 156940637, 25>>, <<229477716, 91478215, 7>>, <<58205493, 384164680, 22>>, <<429088030, 61881623, 28>>>>,
       <<<<26630497, 13467857, 14>>, <<524070351, 61516172, 43>>, <<59041627, 15896351, 54>>, <<268236046, 331631254, 16>>>>>>,
     <<<<<<507840485, 45349501, 35>>, <<527924505, 326058835, 19>>, <<187526116, 156053108, 23>>, <<234232666, 492213425, 29>>>>,
       <<<<253388978, 72512241, 9>>, <<68167314, 133221158, 25>>, <<252941902, 511066810, 49>>, <<119941993, 462521879, 17>>>>,
       <<<<533658954, 92362557, 23>>, <<445637341, 524613410, 8>>, <<197655201, 522844206, 23>>, <<524156726, 15685346, 25>>>>>>,
     <<<<<<466054679, 356950321, 43>>, <<117236076, 328712289, 55>>, <<331952999, 440878022, 58>>, <<430052407, 253143170, 24>>>>,
       <<<<513569598, 105319222, 53>>, <<145321435, 254921785, 7>>, <<188784536, 76593117, 36>>, <<517089431, 168807265, 24>>>>,
       <<<<440172030, 141205779, 15>>, <<337519056, 77701607, 1>>, <<201696840, 407936498, 57>>, <<94918429, 455854875, 15>>>>>>,
     <<<<<<447397336, 73292608, 32>>, <<35825971, 301551953, 41>>, <<282974020, 305185198, 1>>, <<322116965, 518728821, 28>>>>,
       <<<<251459951, 357251328, 26>>, <<476950979, 267574969, 47>>, <<275010010, 432151530, 58>>, <<434692084, 184154638, 12>>>>,
       <<<<181935135, 278876264, 59>>, <<107632511, 338963954, 10>>, <<219721922, 411873925, 38>>, <<135946379, 211052239, 29>>>>>>
   >>,
   <<
     <<<<<<532441403, 37610044, 56>>, <<278931151, 415407282, 63>>, <<129164878, 165556211, 62>>, <<224759824, 462577753, 31>>>>,
       <<<<72221975, 242899088, 4>>, <<494871452, 488837888, 24>>, <<455594133, 527414441, 2>>, <<420364993, 242110400, 12>>>>,
       <<<<143184088, 257172366, 47>>, <<4733508, 212747090, 37>>, <<389643916, 524991242, 28>>, <<47907155, 461186290, 17>>>>>>,
     <<<<<<222706060, 201812765, 52>>, <<434590984, 373296758, 61>>, <<500637590, 471724796, 13>>, <<271144647, 342076387, 14>>>>,
       <<<<441048570, 477729585, 52>>, <<374462561, 385225575, 60>>, <<486732738, 162468915, 1>>, <<202858889, 510526664, 1>>>>,
       <<<<230667801, 304178960, 20>>, <<438049100, 481657587, 33>>, <<81324268, 5678247, 3>>, <<495692514, 521018478, 8>>>>>>,
     <<<<<<379355483, 258297066, 36>>, <<394374215, 319518523, 12>>, <<133208026, 345361987, 2>>, <<41052616, 295316789, 29>>>>,
       <<<<54321676, 189491669, 16>>, <<422627064, 418340706, 28>>, <<371455365, 360430738, 6>>, <<68805466, 31564081, 4>>>>,
       <<<<490488070, 220413061, 39>>, <<9674571, 497560266, 62>>, <<105346749, 95524510, 53>>, <<130359711, 273061909, 14>>>>>>,
     <<<<<<211589155, 386556753, 16>>, <<268119286, 502847073, 17>>, <<427505437, 347244715, 3>>, <<302207888, 115885254, 12>>>>,
       <<<<454749817, 237329858, 21>>, <<456527838, 192921011, 32>>, <<526084291, 357304738, 16>>, <<105107258, 308586483, 4>>>>,
       <<<<189450251, 256017348, 52>>, <<490692292, 149794226, 32>>, <<322705795, 264595704, 47>>, <<502036083, 411092018, 26>>>>>>,
     <<<<<<296477373, 302345052, 24>>, <<437547589, 480315149, 20>>, <<299927664, 335079578, 20>>, <<213515404, 66131038, 7>>>>,
       <<<<270102780, 228360548, 63>>, <<264566679, 247881737, 52>>, <<133288116, 171740389, 46>>, <<239341592, 82473449, 20>>>>,
       <<<<396251765, 471527950, 15>>, <<332713979, 77423488, 15>>, <<466629513, 142441432, 59>>, <<527252604, 47395075, 17>>>>>>,
     <<<<<<13659669, 25773445, 26>>, <<76885734, 175526117, 55>>, <<249739986, 108917364, 5>>, <<490942392, 152043489, 20>>>>,
       <<<<239559123, 131931252, 58>>, <<132036566, 259613453, 12>>, <<522783066, 264963341, 53>>, <<316646103, 237320775, 1>>>>,
       <<<<219054734, 197016654, 10>>, <<409314056, 488921338, 7>>, <<147997989, 109866422, 7>>, <<152907321, 204283271, 29>>>>>>,
     <<<<<<29568892, 364512446, 32>>, <<110583760, 25321139, 51>>, <<12247516, 51447092, 9>>, <<74071021, 514763032, 0>>>>,
       <<<<432870033, 397581245, 23>>, <<90055799, 77302590, 38>>, <<353824139, 516939479, 34>>, <<193109736, 190236759, 21>>>>,
       <<<<346982525, 416163423, 12>>, <<358081692, 410683554, 28>>, <<528830825, 439030839, 25>>, <<184808829, 417367127, 28>>>>>>,
     <<<<<<35996696, 274909682, 19>>, <<56097025, 438091332, 52>>, <<224278068, 87826842, 22>>, <<262288450, 355338335, 25>>>>,
       <<<<285865949, 468883570, 43>>, <<412231667, 257470468, 53>>, <<408462173, 510798938, 56>>, <<87408924, 62837703, 18>>>>,
       <<<<30754184, 336062109, 58>>, <<316525930, 124505589, 60>>, <<1986169, 520232589, 55>>, <<437268851, 280033190, 31>>>>>>
   >>,
   <<
     <<<<<<374785873, 15471358, 11>>, <<172356674, 115150752, 37>>, <<67658477, 209281260, 5>>, <<123330005, 223422358, 5>>>>,
       <<<<362733338, 485086603, 11>>, <<123654236, 531161426, 62>>, <<45758796, 51352773, 32>>, <<185854632, 202614684, 18>>>>,
       <<<<359550591, 39867209, 47>>, <<94662277, 275688702, 7>>, <<482140933, 138381311, 59>>, <<504818505, 295925941, 8>>>>>>,
     <<<<<<411526907, 225022717, 9>>, <<51778718, 87266529, 54>>, <<176528732, 420430171, 6>>, <<204317752, 199548048, 13>>>>,
       <<<<116629300, 70991534, 61>>, <<465517394, 269336188, 10>>, <<520137921, 19229742, 30>>, <<335154971, 500737810, 10>>>>,
       <<<<82007108, 142608660, 38>>, <<95077561, 192993357, 58>>, <<504992847, 260626572, 48>>, <<106389703, 8165100, 14>>>>>>,
     <<<<<<249094007, 398094165, 49>>, <<87629788, 118402268, 57>>, <<238316488, 312723196, 8>>, <<243179119, 431296612, 6>>>>,
       <<<<497782861, 250303039, 31>>, <<234653319, 436618671, 61>>, <<296395231, 302302537, 26>>, <<530169324, 138679212, 20>>>>,
       <<<<425608714, 418405647, 51>>, <<448968221, 459840498, 37>>, <<341048779, 316718137, 25>>, <<506239266, 94278554, 8>>>>>>,
     <<<<<<79398748, 239307301, 59>>, <<377102417, 66007210, 51>>, <<258720717, 81084411, 4>>, <<422871899, 497613139, 3>>>>,
       <<<<231616708, 314422081, 22>>, <<424854080, 394209234, 5>>, <<368355042, 356422667, 7>>, <<331263898, 66119985, 17>>>>,
       <<<<159619701, 43189863, 12>>, <<411774571, 50468568, 40>>, <<464306506, 147650703, 60>>, <<190611560, 482259972, 9>>>>>>,
     <<<<<<119268444, 520747996, 40>>, <<481885500, 97167430, 25>>, <<59107739, 527059742, 44>>, <<314693689, 253396010, 23>>>>,
       <<<<49157692, 523179885, 53>>, <<3605457, 362458378, 5>>, <<9340975, 155726437, 5>>, <<392070400, 526497674, 7>>>>,
       <<<<465164124, 147912203, 32>>, <<265577290, 281219480, 25>>, <<282275078, 255351676, 11>>, <<168040982, 211497690, 26>>>>>>,
     <<<<<<275344663, 144688714, 24>>, <<392957623, 426341841, 62>>, <<14932038, 55808947, 54>>, <<225964444, 356188499, 25>>>>,
       <<<<384182795, 491288548, 19>>, <<278872557, 208362655, 23>>, <<151957858, 206668367, 43>>, <<107893886, 229942701, 6>>>>,
       <<<<312173987, 324792645, 24>>, <<208174486, 498976909, 34>>, <<25943572, 332067134, 28>>, <<306413148, 395206089, 2>>>>>>,
     <<<<<<333659264, 87357754, 50>>, <<225353162, 343803468, 53>>, <<505874389, 296445039, 24>>, <<444239765, 164920735, 4>>>>,
       <<<<202220250, 422239524, 18>>, <<411160935, 394869856, 28>>, <<428908582, 165060312, 5>>, <<39378824, 28564311, 22>>>>,
       <<<<285411178, 281910248, 21>>, <<11923756, 403400621, 12>>, <<128526071, 738119, 59>>, <<169625111, 116767049, 14>>>>>>,
     <<<<<<533926656, 299944520, 48>>, <<315244481, 496410212, 11>>, <<530842090, 218318893, 22>>, <<34578158, 224487664, 12>>>>,
       <<<<211991324, 165821007, 1>>, <<390808812, 49204494, 59>>, <<301408385, 17255680, 13>>, <<432604893, 534466512, 1>>>>,
       <<<<415796808, 479017889, 9>>, <<111196664, 192014435, 35>>, <<293820319, 322206777, 48>>, <<412245190, 73521037, 6>>>>>>
   >>,
   <<
     <<<<<<220395575, 350553849, 46>>, <<382611378, 32684981, 26>>, <<427796699, 98414193, 34>>, <<394700500, 525027175, 2>>>>,
       <<<<193729614, 358948134, 7>>, <<304717715, 196076308, 34>>, <<174192522, 160104236, 0>>, <<467380423, 48358229, 4>>>>,
       <<<<60792629, 533380192, 36>>, <<195627060, 352293991, 31>>, <<508755985, 193911984, 36>>, <<103998291, 142949775, 14>>>>>>,
     <<<<<<356801939, 420518871, 53>>, <<38510077, 404350822, 6>>, <<322217768, 310119472, 11>>, <<176974099, 145094559, 14>>>>,
       <<<<239323243, 79324025, 43>>, <<48320879, 385802061, 28>>, <<484068497, 90762627, 34>>, <<332840057, 211871993, 0>>>>,
       <<<<520510611, 9467678, 9>>, <<95524928, 197553462, 6>>, <<18106756, 259990580, 58>>, <<51612834, 394569121, 16>>>>>>,
     <<<<<<484901901, 388888666, 62>>, <<12410388, 270517553, 38>>, <<368726997, 315469624, 26>>, <<223328999, 395027800, 31>>>>,
       <<<<248167438, 126041990, 5>>, <<187795569, 436698210, 54>>, <<405321116, 528279373, 10>>, <<501461137, 358583568, 9>>>>,
       <<<<458403676, 432231378, 59>>, <<247655884, 346621, 41>>, <<167202112, 254218499, 59>>, <<221254902, 212484796, 29>>>>>>,
     <<<<<<493535425, 535990449, 30>>, <<26868198, 139502009, 38>>, <<436587470, 453669940, 54>>, <<188318704, 98330913, 22>>>>,
       <<<<153539701, 50428723, 57>>, <<49280961, 121399984, 52>>, <<519890608, 251379657, 59>>, <<497258316, 223697549, 23>>>>,
       <<<<279374401, 180556947, 6>>, <<219533915, 382551376, 61>>, <<336964985, 256213280, 52>>, <<490314613, 520218441, 9>>>>>>,
     <<<<<<45001528, 502827061, 30>>, <<360896061, 116150255, 62>>, <<177811865, 396100992, 0>>, <<311281028, 141074929, 5>>>>,
       <<<<434705353, 93932914, 22>>, <<18229019, 536341288, 61>>, <<113741010, 450330336, 10>>, <<204928735, 463859097, 4>>>>,
       <<<<111046700, 110815458, 43>>, <<146555862, 420986327, 56>>, <<387179183, 142263424, 51>>, <<122810205, 419390920, 17>>>>>>,
     <<<<<<374109274, 22843205, 39>>, <<421634584, 118092940, 52>>, <<471816221, 458121085, 19>>, <<375250063, 214949829, 30>>>>,
       <<<<217660119, 420163001, 32>>, <<522211050, 350983958, 29>>, <<829411, 228358208, 37>>, <<56715740, 84778920, 20>>>>,
       <<<<272431780, 456128285, 7>>, <<353352138, 268134395, 24>>, <<463261943, 8351005, 37>>, <<25249630, 76432724, 6>>>>>>,
     <<<<<<330875575, 141666005, 18>>, <<13313897, 524784278, 7>>, <<36352025, 214689749, 20>>, <<492425030, 157866030, 28>>>>,
       <<<<334232245, 326547719, 49>>, <<20279734, 129092311, 31>>, <<259505652, 506315476, 54>>, <<228185907, 120567213, 9>>>>,
       <<<<386215513, 96722607, 57>>, <<56761235, 295192270, 37>>, <<76178577, 517451653, 18>>, <<280034355, 484708735, 8>>>>>>,
     <<<<<<465064616, 486989292, 30>>, <<432790193, 220784307, 43>>, <<532912635, 218951595, 17>>, <<135251657, 306265300, 0>>>>,
       <<<<453292605, 61570733, 14>>, <<169896518, 70473153, 13>>, <<223688857, 200762850, 22>>, <<422664422, 203652672, 13>>>>,
       <<<<299645963, 65668266, 58>>, <<476414944, 390711172, 38>>, <<187192924, 296632498, 5>>, <<316745077, 385477324, 31>>>>>>
   >>,
   <<
     <<<<<<453133952, 274985960, 51>>, <<432328430, 72775373, 5>>, <<264857685, 310170670, 27>>, <<63245546, 467008442, 20>>>>,
       <<<<471140079, 375927589, 42>>, <<356041154, 343357131, 10>>, <<418877894, 495589740, 47>>, <<481931422, 19570137, 10>>>>,
       <<<<189003727, 313307989, 33>>, <<306018493, 100877704, 42>>, <<128782899, 386230481, 48>>, <<249370676, 17191158, 24>>>>>>,
     <<<<<<306983759, 255639746, 38>>, <<279946284, 343789384, 4>>, <<149912187, 235579649, 21>>, <<399315451, 533088085, 27>>>>,
       <<<<76186783, 426787446, 7>>, <<385135797, 121367108, 7>>, <<196057104, 61575422, 4>>, <<529110743, 242048169, 20>>>>,
       <<<<370591796, 108744910, 48>>, <<266650257, 34516453, 37>>, <<181007774, 487967233, 61>>, <<449289061, 137447849, 0>>>>>>,
     <<<<<<197457801, 169502474, 60>>, <<262900870, 230372807, 5>>, <<375699560, 219095391, 56>>, <<27696482, 209007345, 11>>>>,
       <<<<474856191, 181466546, 14>>, <<238382656, 320492390, 42>>, <<527541839, 51292380, 23>>, <<478390706, 315721900, 2>>>>,
       <<<<101011347, 468490327, 54>>, <<474408562, 154941614, 39>>, <<431281026, 201664044, 34>>, <<204248808, 509860937, 5>>>>>>,
     <<<<<<84980463, 233425832, 16>>, <<99073275, 514596560, 7>>, <<463230776, 140040989, 10>>, <<30665710, 244882528, 13>>>>,
       <<<<402359897, 172614991, 5>>, <<478853179, 237446313, 9>>, <<408151989, 274798056, 50>>, <<112095810, 316842241, 6>>>>,
       <<<<28613009, 163295958, 56>>, <<299564926, 379604861, 58>>, <<307827385, 172927594, 20>>, <<53415477, 123252597, 30>>>>>>,
     <<<<<<382535063, 306623707, 24>>, <<3892588, 446388288, 31>>, <<245076406, 177762913, 3>>, <<182550052, 308748624, 22>>>>,
       <<<<180148638, 125395135, 46>>, <<330248192, 129313363, 59>>, <<392069197, 500873054, 0>>, <<19236308, 91654428, 9>>>>,
       <<<<453130931, 16374507, 59>>, <<330849940, 347996739, 39>>, <<163316366, 298514851, 43>>, <<393388252, 455644770, 22>>>>>>,
     <<<<<<275466774, 35520639, 53>>, <<271593258, 163807186, 14>>, <<266504104, 8794672, 50>>, <<373788529, 352349162, 24>>>>,
       <<<<448549572, 497533422, 45>>, <<398572843, 57680005, 16>>, <<54198389, 156383641, 34>>, <<275063733, 289511231, 24>>>>,
       <<<<206736046, 494517047, 59>>, <<140938265, 441838444, 51>>, <<273511098, 297374170, 6>>, <<11385971, 497223589, 29>>>>>>,
     <<<<<<43609178, 329480366, 25>>, <<218171926, 38254563, 3>>, <<227493930, 356439317, 58>>, <<362125081, 521572283, 30>>>>,
       <<<<428782361, 287365914, 37>>, <<255841917, 393112397, 61>>, <<373882973, 298535234, 21>>, <<392495566, 406327898, 21>>>>,
       <<<<505942650, 474944989, 53>>, <<197964434, 73300352, 49>>, <<171192969, 431774353, 23>>, <<276653103, 375628589, 24>>>>>>,
     <<<<<<255755337, 276521589, 62>>, <<336720582, 154357702, 48>>, <<213163374, 193104924, 4>>, <<439362516, 171953048, 24>>>>,
       <<<<106041025, 430332230, 15>>, <<222604851, 387235162, 52>>, <<139035884, 264497035, 56>>, <<508551204, 32979731, 22>>>>,
       <<<<375358498, 279854090, 24>>, <<39705199, 187814598, 21>>, <<362599450, 197900790, 11>>, <<274811578, 296186786, 30>>>>>>
   >>,
   <<
     <<<<<<430594824, 218248825, 1>>, <<232009143, 28100941, 48>>, <<86790403, 261679117, 27>>, <<80801686, 485451639, 2>>>>,
       <<<<330727643, 197139564, 2>>, <<56772152, 518187798, 60>>, <<418086356, 203442797, 10>>, <<220126153, 371453925, 27>>>>,
       <<<<522991974, 222313595, 37>>, <<169643104, 56189115, 11>>, <<78880112, 464821819, 60>>, <<416240012, 461845582, 16>>>>>>,
     <<<<<<341582760, 315776121, 51>>, <<322067943, 39176357, 52>>, <<427630741, 305634457, 43>>, <<149079276, 408166669, 8>>>>,
       <<<<420026832, 23409771, 28>>, <<409347790, 258973243, 35>>, <<128240955, 93610494, 13>>, <<369413172, 172511360, 17>>>>,
       <<<<391958551, 306210562, 23>>, <<184657495, 387728436, 10>>, <<315398518, 431477765, 1>>, <<182791935, 254293154, 7>>>>>>,
     <<<<<<519669177, 524191063, 7>>, <<454793042, 198990392, 26>>, <<306805794, 193041273, 22>>, <<422027584, 308585116, 26>>>>,
       <<<<511926403, 530727895, 3>>, <<247728249, 387031253, 22>>, <<390485919, 165684217, 48>>, <<84110245, 122916618, 8>>>>,
       <<<<301403415, 163105437, 30>>, <<154140405, 440898271, 53>>, <<146777780, 284118255, 23>>, <<7241653, 74292091, 9>>>>>>,
     <<<<<<374169551, 363187477, 13>>, <<75519040, 369019889, 4>>, <<73915432, 246665291, 37>>, <<106946221, 382705536, 1>>>>,
       <<<<284992521, 19978435, 0>>, <<106277293, 414572698, 47>>, <<105021381, 488672399, 56>>, <<134985820, 397006076, 28>>>>,
       <<<<285520296, 362541307, 39>>, <<282781109, 123253245, 16>>, <<161619341, 519573768, 33>>, <<284217581, 177451108, 16>>>>>>,
     <<<<<<7996438, 181266277, 33>>, <<107674562, 253049805, 58>>, <<474607036, 14295583, 42>>, <<342869797, 440557646, 21>>>>,
       <<<<434797563, 372818584, 55>>, <<374306856, 476399721, 27>>, <<75397805, 144475056, 41>>, <<105252275, 168546853, 30>>>>,
       <<<<399497865, 421988269, 29>>, <<220323608, 62742744, 18>>, <<99645412, 123010250, 44>>, <<226264859, 201001624, 15>>>>>>,
     <<<<<<336861219, 7018469, 49>>, <<31757849, 397261699, 52>>, <<266432430, 168276678, 23>>, <<504054959, 533409102, 22>>>>,
       <<<<254330117, 132309834, 27>>, <<377002194, 454707294, 17>>, <<421325559, 176468519, 56>>, <<354846316, 466277642, 9>>>>,
       <<<<338516663, 76860610, 40>>, <<261034762, 13727201, 49>>, <<302295775, 123047171, 13>>, <<215466370, 265284320, 19>>>>>>,
     <<<<<<161658008, 199669748, 31>>, <<218575654, 395105399, 8>>, <<883210, 446105855, 5>>, <<27292140, 328574024, 3>>>>,
       <<<<258250902, 437475971, 9>>, <<509515748, 448134700, 43>>, <<260639585, 280875455, 43>>, <<526045930, 498554123, 14>>>>,
       <<<<375725551, 150459947, 4>>, <<204967594, 331357201, 3>>, <<139720059, 460561345, 8>>, <<341601435, 357228636, 8>>>>>>,
     <<<<<<401472743, 5394884, 19>>, <<135119643, 216977727, 21>>, <<448626261, 172376311, 30>>, <<264278972, 136579574, 12>>>>,
       <<<<331513069, 444366414, 16>>, <<418280324, 65262613, 59>>, <<231225064, 87287758, 31>>, <<199336835, 141695164, 2>>>>,
       <<<<306181416, 496506827, 31>>, <<285772715, 384767660, 6>>, <<26078944, 382157453, 8>>, <<528953277, 231222506, 22>>>>>>
   >>,
   <<
     <<<<<<405641119, 465240044, 18>>, <<72010588, 266658486, 58>>, <<57339538, 64272157, 62>>, <<496828490, 509217346, 26>>>>,
       <<<<103569262, 417226042, 8>>, <<368582866, 129797102, 23>>, <<348141765, 102196571, 28>>, <<413258835, 476963818, 5>>>>,
       <<<<84963447, 476766476, 62>>, <<309884451, 239965748, 62>>, <<393312104, 500442785, 57>>, <<236278256, 386988247, 31>>>>>>,
     <<<<<<343589853, 175144897, 13>>, <<2647151, 10364216, 33>>, <<519482867, 318661973, 7>>, <<235105144, 312918284, 12>>>>,
       <<<<299534836, 215173350, 16>>, <<479188076, 81380178, 56>>, <<449339033, 181732571, 2>>, <<197291226, 154668495, 1>>>>,
       <<<<230593667, 449796741, 37>>, <<178077978, 47438467, 54>>, <<80883363, 89864462, 14>>, <<118233654, 476705835, 16>>>>>>,
     <<<<<<300720735, 480727982, 28>>, <<3954639, 376972546, 49>>, <<63131137, 345332201, 8>>, <<390503826, 179198467, 0>>>>,
       <<<<396419929, 243531824, 49>>, <<109018573, 310241028, 56>>, <<509775439, 468262336, 9>>, <<279173093, 87590539, 25>>>>,
       <<<<250775245, 512895511, 61>>, <<131911972, 107514168, 36>>, <<210729836, 136608887, 31>>, <<354639258, 225827631, 13>>>>>>,
     <<<<<<260826130, 191757525, 1>>, <<195120338, 316968719, 46>>, <<100431227, 368114223, 58>>, <<107965982, 189762381, 1>>>>,
       <<<<527226879, 507789105, 47>>, <<305316773, 292741764, 10>>, <<92676994, 15072073, 53>>, <<41583817, 21249796, 10>>>>,
       <<<<431428165, 472923924, 45>>, <<26798060, 293304423, 14>>, <<83328782, 190575616, 30>>, <<410849119, 166745647, 18>>>>>>,
     <<<<<<60616259, 203563263, 21>>, <<382667625, 261516647, 42>>, <<222171651, 140328039, 53>>, <<525131002, 367744491, 3>>>>,
       <<<<82616159, 488435789, 25>>, <<26149355, 121110329, 53>>, <<99819008, 280621176, 14>>, <<23436459, 270155862, 4>>>>,
       <<<<43757782, 445438724, 55>>, <<362692022, 528474665, 60>>, <<484061771, 245943807, 61>>, <<424305261, 17504111, 22>>>>>>,
     <<<<<<223902033, 290250230, 29>>, <<143673764, 237185005, 19>>, <<381281345, 407311883, 18>>, <<40988157, 105605106, 23>>>>,
       <<<<428507753, 77058736, 41>>, <<184888929, 244880128, 59>>, <<438950970, 133693508, 15>>, <<185002861, 284724035, 1>>>>,
       <<<<258774776, 57139979, 42>>, <<346168673, 177208182, 7>>, <<119222362, 196284100, 50>>, <<365132873, 469516643, 24>>>>>>,
     <<<<<<331618260, 321470133, 43>>, <<372972504, 112163457, 44>>, <<513147450, 15514656, 6>>, <<465031342, 466434700, 30>>>>,
       <<<<535180994, 136611850, 24>>, <<278699115, 185718792, 1>>, <<498182871, 77785555, 54>>, <<180174352, 351621960, 8>>>>,
       <<<<34627307, 448813694, 56>>, <<238696796, 103097676, 35>>, <<166712827, 490575805, 43>>, <<342936113, 305681211, 4>>>>>>,
     <<<<<<416829451, 124852589, 10>>, <<423824363, 366673479, 63>>, <<296449315, 130843367, 63>>, <<269915372, 515734540, 9>>>>,
       <<<<152498797, 115764893, 44>>, <<254815695, 451325685, 6>>, <<446658354, 268157454, 28>>, <<354077264, 193741628, 31>>>>,
       <<<<383821749, 109917066, 47>>, <<370765707, 180232286, 42>>, <<221598035, 337277589, 41>>, <<215850377, 41601979, 10>>>>>>
   >>,
   <<
     <<<<<<309360818, 384941787, 37>>, <<308196681, 327613606, 0>>, <<473791348, 409312081, 11>>, <<437479472, 460422522, 17>>>>,
       <<<<508695573, 5179018, 47>>, <<281222892, 361480774, 29>>, <<20217155, 455013091, 21>>, <<395204390, 60247773, 18>>>>,
       <<<<166545194, 290389849, 42>>, <<307559200, 124812208, 61>>, <<28034321, 505190636, 23>>, <<453926201, 382841156, 24>>>>>>,
     <<<<<<204340664, 71694610, 12>>, <<415963291, 327227561, 63>>, <<169003045, 246468899, 16>>, <<231874226, 362900217, 30>>>>,
       <<<<161632663, 393206441, 17>>, <<437100604, 371436242, 15>>, <<84510384, 449031773, 43>>, <<199204609, 134440044, 3>>>>,
       <<<<363919705, 441984207, 13>>, <<83862697, 284442275, 42>>, <<494613172, 499766337, 27>>, <<299397973, 223651544, 2>>>>>>,
     <<<<<<447302911, 119607540, 46>>, <<234222955, 255126643, 17>>, <<416434739, 38348411, 16>>, <<279074532, 84654866, 3>>>>,
       <<<<197171223, 161296113, 44>>, <<81194503, 21511398, 27>>, <<167636195, 279340729, 17>>, <<389138214, 107277156, 6>>>>,
       <<<<387032265, 380718182, 15>>, <<108339017, 275576388, 5>>, <<312346769, 351507024, 42>>, <<125625658, 136942789, 5>>>>>>,
     <<<<<<62538203, 426099963, 58>>, <<471190359, 50299358, 49>>, <<139189865, 41459852, 37>>, <<376872269, 166651177, 26>>>>,
       <<<<260154690, 325940602, 60>>, <<404381206, 89124900, 60>>, <<178842072, 404036166, 40>>, <<488665750, 218045873, 22>>>>,
       <<<<212706327, 418800810, 42>>, <<387718144, 269959665, 38>>, <<397569138, 21026680, 41>>, <<273929467, 237247084, 13>>>>>>,
     <<<<<<318782587, 48947237, 39>>, <<54455033, 119451103, 45>>, <<326268839, 402933486, 50>>, <<29800953, 362822911, 3>>>>,
       <<<<178190817, 106259701, 53>>, <<421793844, 7730903, 52>>, <<482363022, 472235887, 49>>, <<186497485, 468621758, 29>>>>,
       <<<<109211747, 437090047, 42>>, <<493192060, 471455658, 9>>, <<257888053, 275436014, 60>>, <<373884721, 376441794, 26>>>>>>,
     <<<<<<466169885, 490955031, 7>>, <<69830091, 354001734, 13>>, <<221094951, 369549781, 45>>, <<296577731, 310154422, 20>>>>,
       <<<<315190841, 140518223, 12>>, <<97209567, 226609574, 15>>, <<43823464, 59487285, 10>>, <<360028598, 320786275, 9>>>>,
       <<<<26001154, 167835458, 14>>, <<363900028, 42327681, 0>>, <<262339870, 156760253, 50>>, <<517674694, 93780397, 23>>>>>>,
     <<<<<<28635833, 75262999, 34>>, <<355268083, 270362029, 30>>, <<195100882, 76334528, 22>>, <<298676544, 333340102, 19>>>>,
       <<<<389536517, 41987716, 34>>, <<933190, 160234275, 2>>, <<211832745, 201008702, 7>>, <<121651753, 444823622, 26>>>>,
       <<<<125076881, 288839830, 23>>, <<292405963, 141765824, 52>>, <<155047293, 144584121, 58>>, <<357024666, 116762920, 14>>>>>>,
     <<<<<<432624046, 235949890, 34>>, <<136311888, 124821496, 4>>, <<363381862, 14042628, 42>>, <<517373016, 414687441, 27>>>>,
       <<<<98394310, 378325397, 35>>, <<384783225, 371308014, 40>>, <<133806831, 102616847, 34>>, <<158809839, 315585129, 7>>>>,
       <<<<128097124, 273554664, 27>>, <<98412641, 70627845, 48>>, <<394993384, 4782885, 22>>, <<383917788, 520098904, 9>>>>>>
   >>,
   <<
     <<<<<<447254093, 181627778, 20>>, <<369098627, 186744996, 15>>, <<447226138, 8183159, 51>>, <<220680342, 498031767, 7>>>>,
       <<<<531342051, 207808173, 29>>, <<197387080, 149564345, 32>>, <<385603540, 480004968, 54>>, <<355336350, 426112151, 6>>>>,
       <<<<137374806, 221656556, 46>>, <<400771119, 83975801, 59>>, <<151079318, 295429094, 12>>, <<221277032, 234565735, 15>>>>>>,
     <<<<<<212187251, 446430079, 63>>, <<16669974, 79888711, 62>>, <<530044356, 34296313, 41>>, <<91649882, 88692814, 28>>>>,
       <<<<38159048, 307335403, 56>>, <<506502358, 349730768, 31>>, <<494184100, 124542836, 1>>, <<131740581, 431499638, 28>>>>,
       <<<<70804861, 183490873, 37>>, <<354600373, 362214338, 57>>, <<452217902, 184105705, 19>>, <<176844658, 472850499, 31>>>>>>,
     <<<<<<352670638, 425229733, 2>>, <<204037813, 117295473, 56>>, <<222081878, 111375870, 2>>, <<155355155, 258351755, 12>>>>,
       <<<<534984198, 528384432, 7>>, <<116066025, 352554553, 43>>, <<323430072, 193866976, 47>>, <<390179824, 185742917, 7>>>>,
       <<<<400462231, 4726094, 32>>, <<518814529, 78592739, 61>>, <<41129416, 5875406, 31>>, <<297029683, 267080876, 6>>>>>>,
     <<<<<<297273076, 526767846, 8>>, <<293339817, 167974895, 46>>, <<426913520, 227949724, 42>>, <<321896538, 209498621, 8>>>>,
       <<<<221478726, 262410307, 22>>, <<369849043, 393555273, 48>>, <<259841985, 284581252, 55>>, <<257199322, 375755308, 26>>>>,
       <<<<46644611, 403279122, 26>>, <<284502181, 313316542, 34>>, <<273175787, 67178600, 17>>, <<143826323, 202491262, 31>>>>>>,
     <<<<<<130222259, 44830456, 0>>, <<399238845, 454805421, 43>>, <<341922425, 308325024, 3>>, <<352674862, 297118766, 1>>>>,
       <<<<225317346, 168364081, 56>>, <<231371282, 87249407, 49>>, <<109240741, 400321924, 3>>, <<232107141, 411602846, 18>>>>,
       <<<<35098231, 24409497, 30>>, <<429712891, 266541798, 20>>, <<127331456, 343482529, 52>>, <<169103449, 49563838, 15>>>>>>,
     <<<<<<240973333, 88530741, 27>>, <<167014897, 43746393, 53>>, <<458266103, 20426103, 30>>, <<22232062, 121779750, 17>>>>,
       <<<<247379130, 123416645, 53>>, <<112489112, 190863045, 20>>, <<285057109, 19419955, 31>>, <<407403610, 45090099, 11>>>>,
       <<<<17191816, 127405240, 63>>, <<491632485, 231019159, 45>>, <<372616919, 287881382, 5>>, <<11489683, 79754801, 6>>>>>>,
     <<<<<<432764341, 100890151, 14>>, <<281297390, 63770655, 41>>, <<526801264, 93641027, 50>>, <<531687836, 372636111, 26>>>>,
       <<<<533890935, 305755801, 21>>, <<187489324, 480657825, 44>>, <<292874330, 127397644, 52>>, <<420525533, 106981767, 1>>>>,
       <<<<177301690, 272632395, 33>>, <<151680092, 105292170, 32>>, <<261733018, 280473530, 54>>, <<100385989, 498902079, 11>>>>>>,
     <<<<<<181425889, 329896386, 36>>, <<46021350, 308332069, 50>>, <<306048496, 275494371, 24>>, <<344214162, 493451298, 30>>>>,
       <<<<342033352, 109452664, 8>>, <<500125816, 428045074, 25>>, <<271392193, 393474454, 16>>, <<316690024, 260634771, 14>>>>,
       <<<<365622082, 468086735, 51>>, <<146528563, 194243167, 56>>, <<288552768, 140216059, 26>>, <<365255022, 5005296, 5>>>>>>
   >>,
   <<
     <<<<<<268026656, 354841432, 27>>, <<52105936, 121007884, 37>>, <<518758113, 126574600, 42>>, <<270387480, 144032232, 9>>>>,
       <<<<454246395, 127035259, 55>>, <<437650465, 499853805, 46>>, <<349337944, 243291391, 4>>, <<182986755, 327122867, 5>>>>,
       <<<<167474869, 182295081, 37>>, <<250132560, 17369440, 38>>, <<493945008, 20784, 8>>, <<306652414, 478553524, 10>>>>>>,
     <<<<<<387541212, 478472230, 52>>, <<8053098, 481173373, 33>>, <<336549268, 247108379, 1>>, <<359519791, 409983409, 17>>>>,
       <<<<309083603, 109267439, 52>>, <<278695286, 103626669, 53>>, <<434490817, 109279041, 19>>, <<268952935, 391580008, 21>>>>,
       <<<<479609919, 179263397, 60>>, <<97072814, 134742115, 3>>, <<492253071, 518629174, 55>>, <<225724335, 202711757, 14>>>>>>,
     <<<<<<356739013, 96587407, 28>>, <<59420654, 171175644, 7>>, <<415352135, 21995504, 9>>, <<453638923, 49271314, 21>>>>,
       <<<<177202272, 51330407, 7>>, <<42163065, 263670772, 51>>, <<363562823, 452739710, 4>>, <<14426963, 486900387, 7>>>>,
       <<<<394901054, 159694193, 30>>, <<460228831, 531317791, 53>>, <<166672281, 167406408, 42>>, <<12876718, 434580694, 3>>>>>>,
     <<<<<<178717368, 244537227, 31>>, <<392088829, 142524252, 60>>, <<393526215, 99289549, 9>>, <<489502447, 509881693, 19>>>>,
       <<<<16986369, 251001193, 54>>, <<103617120, 510627636, 48>>, <<192727643, 520189639, 10>>, <<318359123, 65139205, 21>>>>,
       <<<<234126315, 215038644, 52>>, <<376782023, 343491502, 15>>, <<151449641, 521755257, 14>>, <<161920671, 371244933, 8>>>>>>,
     <<<<<<139523886, 188815488, 47>>, <<305888024, 446437675, 26>>, <<476273673, 263644347, 54>>, <<475479077, 497155357, 28>>>>,
       <<<<123946047, 364465343, 22>>, <<6206382, 335137540, 40>>, <<5731150, 530862962, 2>>, <<99141848, 138934010, 10>>>>,
       <<<<322831862, 334392990, 4>>, <<343734497, 338658345, 41>>, <<88413893, 515156318, 60>>, <<54178838, 408618530, 7>>>>>>,
     <<<<<<295491167, 101936960, 49>>, <<249958930, 37359076, 32>>, <<36601364, 466956555, 37>>, <<275372408, 499924364, 7>>>>,
       <<<<256354008, 406401953, 34>>, <<367838663, 374031676, 39>>, <<96679651, 485709199, 58>>, <<339852951, 183289155, 23>>>>,
       <<<<492662047, 259072207, 15>>, <<194869832, 120686010, 4>>, <<108887223, 146132415, 43>>, <<40344951, 481423515, 21>>>>>>,
     <<<<<<354658570, 518942476, 58>>, <<46758217, 124237303, 32>>, <<98921259, 511397942, 10>>, <<307989161, 257726953, 20>>>>,
       <<<<170219249, 535608216, 9>>, <<348268187, 261041845, 4>>, <<42167523, 281103796, 26>>, <<254527213, 363458817, 11>>>>,
       <<<<197654973, 278780842, 27>>, <<276487522, 224683747, 27>>, <<39527127, 34942744, 10>>, <<455077222, 121672668, 4>>>>>>,
     <<<<<<266696921, 231704263, 20>>, <<455075373, 139853960, 59>>, <<469903367, 330110874, 38>>, <<340381883, 194970222, 17>>>>,
       <<<<93567759, 163272768, 46>>, <<259589339, 488235491, 19>>, <<345508536, 416859397, 19>>, <<223286634, 230674845, 3>>>>,
       <<<<154291678, 149194693, 61>>, <<43513723, 311770133, 47>>, <<210911852, 531131174, 17>>, <<131447382, 155034820, 16>>>>>>
   >>,
   <<
     <<<<<<67505504, 431436407, 20>>, <<228348443, 511800272, 18>>, <<183364579, 531615482, 52>>, <<113196757, 377676762, 15>>>>,
       <<<<472595155, 501252176, 29>>, <<360633588, 160595138, 52>>, <<242209893, 323464513, 41>>, <<245817433, 407202536, 8>>>>,
       <<<<31124795, 272393551, 58>>, <<277401421, 380747212, 3>>, <<525937840, 254902407, 32>>, <<28550565, 159261178, 11>>>>>>,
     <<<<<<323803496, 486843465, 61>>, <<407275904, 122429725, 46>>, <<146888798, 156289856, 6>>, <<1000859, 349989916, 24>>>>,
       <<<<404976422, 119036968, 30>>, <<6888082, 29665448, 43>>, <<104946602, 124712178, 45>>, <<281739179, 28305350, 27>>>>,
       <<<<259800188, 460071477, 52>>, <<277126130, 165921649, 10>>, <<282113884, 269297481, 53>>, <<141725884, 448708830, 17>>>>>>,
     <<<<<<494648606, 370626712, 46>>, <<527731238, 515501127, 59>>, <<217812126, 337232385, 52>>, <<29954075, 332032334, 2>>>>,
       <<<<208161197, 154183280, 10>>, <<84282630, 28235186, 57>>, <<228934424, 232002747, 20>>, <<507159217, 272365458, 27>>>>,
       <<<<316238833, 499514224, 27>>, <<215652384, 132498286, 4>>, <<32941617, 172544735, 27>>, <<502727839, 432593265, 27>>>>>>,
     <<<<<<522554516, 38546468, 3>>, <<435813152, 395281465, 47>>, <<429698743, 281567081, 30>>, <<85708319, 506166107, 13>>>>,
       <<<<526868212, 435456868, 54>>, <<331421571, 114270468, 33>>, <<405649094, 285120638, 14>>, <<85660089, 424678618, 11>>>>,
       <<<<517724493, 218122487, 60>>, <<286087496, 32399238, 9>>, <<519260751, 106558475, 63>>, <<74051403, 3644603, 15>>>>>>,
     <<<<<<427170108, 316485597, 41>>, <<340374633, 532038599, 63>>, <<440608649, 114884749, 45>>, <<493217543, 467601069, 23>>>>,
       <<<<59661933, 74633901, 58>>, <<193868827, 329779342, 43>>, <<74821119, 272762751, 34>>, <<218687045, 431776996, 18>>>>,
       <<<<83168093, 26644353, 51>>, <<100904719, 532548235, 18>>, <<304772059, 227583729, 15>>, <<143725211, 322130566, 2>>>>>>,
     <<<<<<255963318, 342220541, 37>>, <<379646240, 216375827, 60>>, <<299168355, 269334827, 20>>, <<473127730, 292705260, 24>>>>,
       <<<<334926682, 454815123, 39>>, <<175180639, 132470769, 20>>, <<158257117, 137709850, 7>>, <<447539698, 220705794, 6>>>>,
       <<<<476550339, 42716104, 51>>, <<443844059, 281615494, 3>>, <<330100704, 486081404, 49>>, <<454448249, 119695526, 5>>>>>>,
     <<<<<<140486228, 180954254, 35>>, <<280368983, 124731494, 61>>, <<340253083, 360989237, 18>>, <<128075435, 529642205, 7>>>>,
       <<<<461102921, 391538416, 0>>, <<460866886, 528437644, 40>>, <<228601050, 191303720, 49>>, <<213656381, 177582297, 31>>>>,
       <<<<326779294, 349290807, 58>>, <<316894136, 300164488, 21>>, <<160376914, 156161031, 6>>, <<131918355, 200729605, 24>>>>>>,
     <<<<<<463971618, 146358970, 62>>, <<100973477, 266848171, 34>>, <<457576602, 84184696, 36>>, <<498530046, 398526124, 7>>>>,
       <<<<463877477, 494035323, 2>>, <<476607197, 136592442, 12>>, <<372639495, 247209813, 57>>, <<395806008, 90455127, 29>>>>,
       <<<<205457355, 46913762, 62>>, <<344550539, 157162825, 33>>, <<121706099, 179833683, 47>>, <<228663661, 430871344, 14>>>>>>
   >>,
   <<
     <<<<<<188576715, 276550389, 55>>, <<186797150, 495530699, 7>>, <<370124644, 272733000, 60>>, <<488382464, 468129430, 21>>>>,
       <<<<444049357, 402277993, 18>>, <<458327121, 168423347, 39>>, <<80887168, 423102284, 50>>, <<231859147, 118550845, 30>>>>,
       <<<<491731549, 469088219, 22>>, <<307729213, 101311219, 30>>, <<418892935, 156684099, 48>>, <<140704073, 165032590, 27>>>>>>,
     <<<<<<253684871, 418758845, 5>>, <<308881859, 419177571, 19>>, <<19322037, 433912792, 11>>, <<92084633, 268512305, 7>>>>,
       <<<<425221436, 496289312, 60>>, <<154042309, 6342622, 7>>, <<269783014, 44068422, 33>>, <<82146691, 517011249, 3>>>>,
       <<<<58350604, 178592432, 51>>, <<335766137, 311038614, 35>>, <<57058243, 458004863, 39>>, <<110094603, 219149319, 29>>>>>>,
     <<<<<<21762785, 421937862, 37>>, <<525157576, 397127196, 29>>, <<104342908, 465630437, 29>>, <<183473543, 73792146, 27>>>>,
       <<<<464448748, 297515183, 62>>, <<481537234, 341755864, 33>>, <<80689465, 264979653, 35>>, <<82554761, 281570173, 0>>>>,
       <<<<309505367, 327516263, 32>>, <<521652596, 502074857, 28>>, <<394972498, 523810565, 24>>, <<443254368, 397145863, 8>>>>>>,
     <<<<<<54227617, 302397683, 41>>, <<31942230, 420000332, 11>>, <<436817796, 270480170, 29>>, <<421667292, 397928514, 1>>>>,
       <<<<28344194, 131863194, 11>>, <<456192890, 258277241, 56>>, <<155425448, 208447948, 48>>, <<120630955, 313798841, 10>>>>,
       <<<<471181589, 418226006, 61>>, <<265478389, 465931546, 38>>, <<392220649, 382946249, 20>>, <<331172356, 196266730, 12>>>>>>,
     <<<<<<233745784, 384397886, 45>>, <<204553026, 380428810, 11>>, <<431363997, 415635550, 36>>, <<385949251, 130381379, 3>>>>,
       <<<<81712193, 155137183, 21>>, <<498231676, 387616274, 1>>, <<159133746, 437314314, 59>>, <<501365261, 8538866, 21>>>>,
       <<<<281954188, 286459732, 37>>, <<147782374, 483742673, 53>>, <<493080584, 387509716, 30>>, <<31646861, 462587365, 13>>>>>>,
     <<<<<<5409620, 423812705, 36>>, <<505707240, 315280031, 46>>, <<502431704, 376725172, 36>>, <<381063749, 350484295, 23>>>>,
       <<<<105013362, 370565051, 15>>, <<415211161, 299010870, 8>>, <<145058163, 433539715, 26>>, <<277522884, 477019731, 9>>>>,
       <<<<3782121, 248771210, 39>>, <<11780427, 111189780, 18>>, <<521619219, 199128261, 48>>, <<476105452, 492569425, 22>>>>>>,
     <<<<<<62981450, 302009780, 54>>, <<489002733, 88413809, 49>>, <<514160284, 458949777, 15>>, <<535918091, 93773792, 30>>>>,
       <<<<110890223, 438007762, 17>>, <<530557458, 344339157, 30>>, <<359168469, 111131343, 63>>, <<311193556, 328730148, 14>>>>,
       <<<<218618232, 306980406, 29>>, <<85910368, 17677084, 3>>, <<311624265, 532282212, 35>>, <<142209613, 306609665, 21>>>>>>,
     <<<<<<60413405, 58736598, 34>>, <<118049915, 482108377, 60>>, <<273315253, 285027645, 51>>, <<305531430, 13066237, 6>>>>,
       <<<<216070137, 401994782, 41>>, <<10327955, 252982132, 54>>, <<299472719, 308741325, 38>>, <<226717539, 320570078, 5>>>>,
       <<<<145240894, 176940241, 34>>, <<105520488, 507722953, 25>>, <<290422409, 127120178, 4>>, <<84773615, 75322137, 30>>>>>>
   >>,
   <<
     <<<<<<332094858, 245980808, 62>>, <<226749712, 15395550, 17>>, <<416291982, 355436640, 60>>, <<202965756, 463465699, 11>>>>,
       <<<<120545948, 191905767, 51>>, <<102205830, 242264494, 32>>, <<410798730, 167780127, 32>>, <<369252789, 39455826, 31>>>>,
       <<<<10630471, 238548781, 42>>, <<27565052, 380892837, 20>>, <<320751164, 448676404, 40>>, <<233113220, 121736434, 12>>>>>>,
     <<<<<<122665402, 107345594, 26>>, <<131957771, 13274083, 20>>, <<379727749, 364046409, 25>>, <<90594330, 245384472, 3>>>>,
       <<<<353932129, 248337665, 61>>, <<342122953, 160304801, 26>>, <<316456257, 271683751, 45>>, <<83792035, 26723683, 10>>>>,
       <<<<102845610, 33925100, 46>>, <<196569011, 85459635, 28>>, <<410198749, 447407657, 5>>, <<206732665, 101174905, 7>>>>>>,
     <<<<<<377897546, 472380487, 23>>, <<114275485, 264357380, 44>>, <<199738300, 105001141, 4>>, <<91956689, 157939658, 23>>>>,
       <<<<470017491, 451783766, 62>>, <<506099819, 9379710, 35>>, <<387232645, 209083405, 55>>, <<66495787, 211014177, 1>>>>,
       <<<<143521114, 325800697, 27>>, <<378758777, 290324951, 52>>, <<3132722, 108265084, 60>>, <<446959537, 334748945, 22>>>>>>,
     <<<<<<309970817, 7175856, 43>>, <<493979230, 70232058, 21>>, <<90687864, 142976010, 51>>, <<28082631, 237894290, 0>>>>,
       <<<<139736834, 229962820, 6>>, <<96131453, 533602504, 26>>, <<310613188, 72666584, 63>>, <<210257347, 94187950, 17>>>>,
       <<<<211335164, 490463366, 51>>, <<357811879, 489114123, 5>>, <<225941690, 96900781, 33>>, <<213185970, 427344905, 13>>>>>>,
     <<<<<<535337616, 255619514, 41>>, <<418090797, 361269161, 18>>, <<450693692, 127743852, 30>>, <<255946113, 246722695, 30>>>>,
       <<<<271452162, 522885086, 51>>, <<294159099, 323312625, 49>>, <<206461785, 146366817, 26>>, <<176373192, 111416309, 17>>>>,
       <<<<438949804, 498721270, 50>>, <<14461584, 357381524, 18>>, <<433016783, 319867535, 45>>, <<39677247, 499668394, 8>>>>>>,
     <<<<<<205774873, 301463403, 1>>, <<84399410, 267311181, 38>>, <<52382553, 55871996, 20>>, <<211947181, 91801684, 17>>>>,
       <<<<64638698, 300937088, 62>>, <<359429717, 347572636, 34>>, <<408864990, 384931537, 60>>, <<525005819, 455343953, 10>>>>,
       <<<<459059875, 219924341, 23>>, <<499399222, 298982857, 36>>, <<477762971, 294530022, 38>>, <<331573362, 491709093, 19>>>>>>,
     <<<<<<389295909, 173002289, 25>>, <<373690967, 195885721, 14>>, <<206936463, 454825875, 32>>, <<374765008, 310070989, 13>>>>,
       <<<<272617689, 176836841, 17>>, <<111175945, 206016169, 61>>, <<10256673, 199575923, 47>>, <<463323653, 198279850, 10>>>>,
       <<<<471874190, 59781889, 61>>, <<281531052, 440065904, 60>>, <<78752038, 382592590, 30>>, <<430331181, 250521230, 22>>>>>>,
     <<<<<<144029712, 491948375, 63>>, <<142475520, 369750216, 4>>, <<155484785, 502757521, 49>>, <<374034108, 349884768, 20>>>>,
       <<<<424172674, 152430383, 47>>, <<203309552, 519459057, 28>>, <<132689419, 269382275, 60>>, <<372053181, 2492499, 18>>>>,
       <<<<413964205, 119668013, 40>>, <<234164567, 67907327, 0>>, <<151299693, 358576287, 20>>, <<36181362, 180130908, 23>>>>>>
   >>,
   <<
     <<<<<<396342071, 219813158, 59>>, <<413468498, 503266323, 58>>, <<308086307, 399048670, 39>>, <<426188354, 138641284, 7>>>>,
       <<<<255196395, 276130072, 46>>, <<465294016, 202821617, 36>>, <<305818092, 290837129, 58>>, <<302051455, 77301617, 3>>>>,
       <<<<353101648, 33372715, 60>>, <<487579902, 525620504, 37>>, <<418996344, 491555828, 34>>, <<51326602, 512180342, 3>>>>>>,
     <<<<<<147886761, 100194082, 30>>, <<196038203, 497943885, 22>>, <<114145567, 168624572, 31>>, <<533983772, 232451180, 1>>>>,
       <<<<13143543, 522492209, 61>>, <<198252050, 110026464, 62>>, <<428313123, 30894511, 11>>, <<244897864, 409719964, 25>>>>,
       <<<<533285316, 48433125, 1>>, <<170022327, 429770543, 55>>, <<215859211, 194351502, 36>>, <<465130666, 230119546, 31>>>>>>,
     <<<<<<158593529, 236843395, 56>>, <<406930904, 215132800, 7>>, <<433027228, 16292765, 37>>, <<23167675, 108163648, 13>>>>,
       <<<<435233904, 288310684, 35>>, <<182420783, 376982044, 23>>, <<277184955, 285094850, 58>>, <<260869513, 247623031, 26>>>>,
       <<<<212039910, 203070605, 62>>, <<108195006, 140272343, 50>>, <<14316730, 53954846, 37>>, <<401009795, 120310833, 10>>>>>>,
     <<<<<<533325255, 285997434, 39>>, <<459942703, 461283652, 23>>, <<69275764, 63051386, 28>>, <<59959444, 391970392, 15>>>>,
       <<<<337827222, 393262972, 54>>, <<88077513, 441599684, 0>>, <<94627, 380358489, 41>>, <<204618344, 83872185, 1>>>>,
       <<<<335727627, 70554617, 54>>, <<232231410, 365697483, 46>>, <<439080468, 228365546, 2>>, <<56244306, 493286130, 21>>>>>>,
     <<<<<<95809774, 258886361, 47>>, <<374290912, 285283009, 50>>, <<126804311, 173088007, 20>>, <<174863494, 280793602, 13>>>>,
       <<<<280511045, 225160212, 47>>, <<463344411, 325409669, 23>>, <<57859176, 451106253, 10>>, <<494972533, 476462729, 15>>>>,
       <<<<508979106, 170969632, 32>>, <<300872380, 194574138, 13>>, <<457906389, 155459760, 27>>, <<507948028, 235583715, 11>>>>>>,
     <<<<<<158137818, 341936311, 0>>, <<366953623, 448668728, 52>>, <<514686126, 452663093, 38>>, <<418334190, 466049937, 31>>>>,
       <<<<434825803, 158672264, 1>>, <<292473303, 245196043, 4>>, <<232425674, 389423001, 16>>, <<338993046, 250530562, 4>>>>,
       <<<<178579096, 142645645, 48>>, <<312679715, 392882024, 29>>, <<164883914, 524310900, 8>>, <<163899761, 101236453, 1>>>>>>,
     <<<<<<86253632, 269555629, 15>>, <<268101250, 252700160, 44>>, <<239445581, 484114043, 38>>, <<6576021, 236025111, 7>>>>,
       <<<<328642139, 270806636, 35>>, <<492148720, 341106846, 5>>, <<21935214, 187358130, 0>>, <<143461419, 438755728, 5>>>>,
       <<<<342557826, 439778329, 16>>, <<315845663, 258243869, 29>>, <<427860870, 144566205, 5>>, <<403583062, 493414206, 1>>>>>>,
     <<<<<<33955390, 440118951, 63>>, <<342543277, 8942326, 27>>, <<387449551, 257929932, 44>>, <<361833336, 130496666, 4>>>>,
       <<<<365550612, 317790627, 39>>, <<362899817, 361262506, 61>>, <<320692261, 16626354, 0>>, <<426325599, 253159935, 3>>>>,
       <<<<310584338, 359903696, 63>>, <<524544654, 357889750, 36>>, <<66178878, 45902494, 42>>, <<485470223, 536335689, 19>>>>>>
   >>,
   <<
     <<<<<<211665846, 213386020, 55>>, <<275654709, 328114755, 61>>, <<460272207, 332324608, 29>>, <<208621325, 488116258, 27>>>>,
       <<<<26732388, 242622742, 46>>, <<389413937, 149117734, 63>>, <<463994747, 183514922, 6>>, <<173961775, 239991328, 30>>>>,
       <<<<347994685, 68011096, 23>>, <<175649818, 121957515, 21>>, <<55271139, 106714461, 60>>, <<149615642, 333616034, 21>>>>>>,
     <<<<<<23460936, 259736352, 12>>, <<117421397, 256009000, 63>>, <<484144844, 154414070, 12>>, <<479856015, 121135837, 13>>>>,
       <<<<130743326, 496912823, 43>>, <<412371000, 301602181, 47>>, <<214416685, 445095886, 26>>, <<95517936, 521613420, 13>>>>,
       <<<<424426716, 129848482, 26>>, <<171919433, 342538483, 27>>, <<206541225, 167252232, 34>>, <<314081528, 358984939, 18>>>>>>,
     <<<<<<331605606, 136221132, 6>>, <<420082172, 529294371, 2>>, <<453430055, 382448479, 58>>, <<19924468, 297635035, 30>>>>,
       <<<<46058865, 253082167, 15>>, <<251158265, 405752758, 39>>, <<293073489, 184570744, 21>>, <<526300462, 413116219, 24>>>>,
       <<<<364268430, 489409814, 39>>, <<211925391, 170110410, 60>>, <<27397174, 224766504, 38>>, <<527118665, 220486657, 15>>>>>>,
     <<<<<<46578023, 328518397, 53>>, <<509320794, 261989249, 43>>, <<390455027, 457045587, 42>>, <<525999361, 203054991, 29>>>>,
       <<<<243636180, 169849133, 20>>, <<61096293, 91315776, 8>>, <<15220910, 17995899, 28>>, <<5208816, 416103465, 20>>>>,
       <<<<263279072, 455328043, 54>>, <<62313006, 465568700, 39>>, <<83388756, 309519713, 19>>, <<34445271, 319683853, 3>>>>>>,
     <<<<<<504889683, 131930908, 44>>, <<40097779, 55191798, 48>>, <<451012866, 51174148, 62>>, <<74439974, 467135696, 24>>>>,
       <<<<235093391, 385267449, 40>>, <<407439125, 319827879, 40>>, <<229619683, 484163368, 41>>, <<77586240, 48171602, 16>>>>,
       <<<<138317075, 435524136, 7>>, <<53131701, 121058974, 5>>, <<523677406, 200060925, 57>>, <<168538533, 72028948, 11>>>>>>,
     <<<<<<358775650, 238247718, 48>>, <<321794588, 288300773, 42>>, <<105546346, 344092548, 16>>, <<378771985, 343890254, 0>>>>,
       <<<<148999538, 191112374, 1>>, <<195318214, 442387860, 50>>, <<368716054, 69016122, 38>>, <<204713583, 515251037, 14>>>>,
       <<<<361735176, 83445734, 3>>, <<24355054, 243185559, 54>>, <<243552212, 136111411, 4>>, <<159568799, 483370847, 5>>>>>>,
     <<<<<<450748014, 300068357, 22>>, <<117523944, 218627013, 9>>, <<286898149, 10566371, 6>>, <<360575683, 214734169, 9>>>>,
       <<<<255069333, 40604498, 37>>, <<431286023, 504732211, 41>>, <<160335622, 447393936, 23>>, <<244204485, 449685364, 22>>>>,
       <<<<121848741, 240248518, 62>>, <<266126566, 514173787, 22>>, <<401874778, 513309825, 19>>, <<344240357, 517852051, 31>>>>>>,
     <<<<<<224302447, 253100731, 16>>, <<398598151, 440327595, 54>>, <<134614317, 295376728, 4>>, <<281388027, 273655392, 3>>>>,
       <<<<164897026, 471501395, 15>>, <<141147016, 291282252, 43>>, <<267198359, 136211789, 45>>, <<301792343, 94750655, 7>>>>,
       <<<<55987526, 172859777, 6>>, <<147404815, 527578842, 31>>, <<410608934, 438496904, 14>>, <<149564166, 266592065, 15>>>>>>
   >>,
   <<
     <<<<<<144143726, 220640205, 42>>, <<241231268, 50661196, 36>>, <<348992582, 274739230, 36>>, <<52795019, 360441671, 26>>>>,
       <<<<451905364, 80635407, 24>>, <<144057942, 63821373, 56>>, <<98159728, 331631656, 5>>, <<353601073, 217297894, 29>>>>,
       <<<<498720388, 446546664, 6>>, <<299360134, 153861154, 12>>, <<436511609, 484441698, 42>>, <<432061006, 494745476, 12>>>>>>,
     <<<<<<532067541, 525643011, 63>>, <<236987613, 290204771, 38>>, <<296143947, 422146238, 43>>, <<513367318, 2473529, 15>>>>,
       <<<<295658097, 71166810, 19>>, <<521629767, 405005538, 44>>, <<294920842, 310710037, 51>>, <<370596614, 332277887, 9>>>>,
       <<<<117255786, 44738964, 20>>, <<73049030, 118651049, 63>>, <<402766125, 472330741, 9>>, <<319065439, 485668072, 22>>>>>>,
     <<<<<<422198683, 250175765, 19>>, <<291636336, 202841067, 62>>, <<60455110, 61073831, 12>>, <<356432701, 111455934, 23>>>>,
       <<<<448063378, 337599414, 44>>, <<106076016, 504407744, 34>>, <<364243758, 166724163, 61>>, <<226215848, 464096031, 23>>>>,
       <<<<323589031, 345185359, 51>>, <<342747578, 495850973, 11>>, <<365255117, 21583235, 46>>, <<316990054, 17672217, 13>>>>>>,
     <<<<<<290456554, 231909770, 45>>, <<406381528, 206013123, 62>>, <<389393, 471830752, 10>>, <<24622934, 386135222, 21>>>>,
       <<<<480607798, 429064620, 54>>, <<208482264, 304314514, 1>>, <<98921498, 506727513, 9>>, <<255466065, 204417507, 6>>>>,
       <<<<143440423, 12320272, 19>>, <<360948626, 94730840, 63>>, <<535079421, 371918142, 56>>, <<458198650, 281475180, 7>>>>>>,
     <<<<<<255380485, 31741002, 11>>, <<224416904, 10524343, 55>>, <<60782706, 202722987, 51>>, <<523186263, 426528090, 24>>>>,
       <<<<339582832, 27906408, 11>>, <<226600354, 355577318, 26>>, <<492847026, 391359741, 37>>, <<134898334, 159284468, 29>>>>,
       <<<<390806400, 81020540, 32>>, <<427265429, 424654371, 42>>, <<262046944, 21506582, 43>>, <<381800189, 522719253, 8>>>>>>,
     <<<<<<265515436, 35951985, 35>>, <<177323029, 138301638, 50>>, <<351055018, 365470728, 54>>, <<306957429, 119265825, 11>>>>,
       <<<<88819201, 311602919, 50>>, <<414542810, 172807593, 7>>, <<506900459, 305672602, 56>>, <<207075404, 446106363, 7>>>>,
       <<<<5994919, 212816303, 29>>, <<126323335, 81843069, 55>>, <<454691899, 399832357, 53>>, <<105926849, 460592082, 7>>>>>>,
     <<<<<<126276817, 209971674, 52>>, <<41989733, 247834254, 9>>, <<120814317, 158400474, 49>>, <<111392074, 208177998, 25>>>>,
       <<<<142002557, 117441744, 47>>, <<353898790, 441470619, 54>>, <<258711957, 225064891, 32>>, <<81366373, 57749454, 6>>>>,
       <<<<525700325, 203058737, 13>>, <<176511087, 433100196, 3>>, <<119744888, 231070182, 38>>, <<418141836, 80738158, 20>>>>>>,
     <<<<<<126134145, 79737001, 57>>, <<458341081, 57020333, 44>>, <<294513208, 435256833, 55>>, <<400520452, 295520508, 22>>>>,
       <<<<508172433, 304223134, 48>>, <<145804448, 46388326, 47>>, <<39975425, 309557397, 9>>, <<39594442, 237482267, 7>>>>,
       <<<<185006602, 2919283, 40>>, <<293943540, 365493105, 5>>, <<105088259, 243617686, 17>>, <<210654214, 350408316, 28>>>>>>
   >>,
   <<
     <<<<<<288981432, 115329613, 28>>, <<367346966, 222947327, 9>>, <<535431562, 200400426, 59>>, <<238628999, 397164626, 31>>>>,
       <<<<127679025, 130097438, 10>>, <<241132958, 158790610, 54>>, <<214929450, 179063059, 19>>, <<235426539, 297957808, 21>>>>,
       <<<<62093117, 227196330, 25>>, <<178906759, 456110097, 44>>, <<126218842, 33555680, 11>>, <<454455669, 60439167, 1>>>>>>,
     <<<<<<181100245, 277203767, 22>>, <<209157664, 260117774, 50>>, <<438338778, 516246814, 19>>, <<20141850, 229592676, 30>>>>,
       <<<<494731992, 343004546, 47>>, <<57847600, 260473475, 54>>, <<7025209, 222977123, 28>>, <<17177155, 89238599, 24>>>>,
       <<<<161110490, 357348674, 48>>, <<272675513, 468993325, 40>>, <<19808698, 293436609, 25>>, <<473945518, 76174986, 8>>>>>>,
     <<<<<<314112352, 133277077, 2>>, <<159857085, 455581973, 56>>, <<176105498, 216768139, 60>>, <<389474693, 115810008, 16>>>>,
       <<<<490496089, 259833232, 30>>, <<420938046, 284843131, 41>>, <<81844945, 301232505, 61>>, <<76639894, 4916796, 4>>>>,
       <<<<224677515, 2971541, 49>>, <<47207345, 302813309, 34>>, <<24360463, 349945727, 7>>, <<119920372, 45968865, 17>>>>>>,
     <<<<<<23531782, 428159889, 22>>, <<100834452, 409368369, 45>>, <<235822849, 419353235, 12>>, <<344868611, 315389213, 20>>>>,
       <<<<11604015, 222796844, 33>>, <<93247458, 450107198, 32>>, <<397235686, 296665479, 37>>, <<106684312, 514366848, 24>>>>,
       <<<<719960, 156269495, 5>>, <<506765246, 110361081, 2>>, <<122764395, 45979725, 30>>, <<175034442, 292381044, 26>>>>>>,
     <<<<<<470447622, 429168432, 26>>, <<296664938, 321031909, 57>>, <<408908281, 399825649, 44>>, <<241333091, 163733833, 20>>>>,
       <<<<243897935, 102695393, 62>>, <<53371090, 457376167, 14>>, <<70800905, 202156813, 40>>, <<304157078, 31450755, 21>>>>,
       <<<<195229569, 157080983, 7>>, <<307544078, 106931051, 28>>, <<530954023, 85652508, 17>>, <<333255768, 236813465, 27>>>>>>,
     <<<<<<102925795, 222400516, 43>>, <<355112439, 409099709, 3>>, <<214534697, 383857249, 40>>, <<361746374, 7652769, 30>>>>,
       <<<<124147758, 277021387, 25>>, <<10615244, 432973346, 4>>, <<129066753, 221861810, 22>>, <<316074691, 240414035, 27>>>>,
       <<<<311001380, 299867678, 63>>, <<99212420, 289094708, 12>>, <<509676543, 148542658, 51>>, <<136994854, 80431012, 26>>>>>>,
     <<<<<<420594059, 346420159, 1>>, <<252651032, 163109421, 1>>, <<17024726, 251650674, 11>>, <<362088426, 216059132, 10>>>>,
       <<<<101864662, 254768044, 39>>, <<226408574, 385394598, 47>>, <<3038269, 57890323, 57>>, <<338570989, 340696584, 7>>>>,
       <<<<369784165, 114928617, 23>>, <<135884103, 98359101, 53>>, <<238702971, 511582314, 57>>, <<186861288, 323288434, 23>>>>>>,
     <<<<<<311895847, 241640377, 17>>, <<494701148, 461244655, 56>>, <<186619645, 404864182, 50>>, <<395741652, 343225069, 0>>>>,
       <<<<315233312, 148782392, 2>>, <<290683557, 342656471, 44>>, <<414126148, 476339456, 10>>, <<105102748, 518471778, 22>>>>,
       <<<<41305048, 234224645, 16>>, <<3478250, 182679622, 19>>, <<456602443, 522969111, 10>>, <<469806436, 135035319, 19>>>>>>
   >>,
   <<
     <<<<<<105493800, 69250106, 13>>, <<15557339, 119963863, 31>>, <<40885018, 517798227, 13>>, <<244703392, 1377900, 8>>>>,
       <<<<290070262, 186127064, 26>>, <<40360400, 305331001, 23>>, <<197149500, 345325518, 43>>, <<495866719, 512591164, 17>>>>,
       <<<<484393336, 1047286, 20>>, <<488789576, 36112060, 4>>, <<212499783, 19299908, 31>>, <<396383649, 518555179, 3>>>>>>,
     <<<<<<460886218, 92143573, 50>>, <<400999409, 220776604, 24>>, <<109965971, 317243257, 57>>, <<78955725, 250219070, 29>>>>,
       <<<<251820859, 144863068, 33>>, <<186714058, 37253451, 36>>, <<439652309, 102458048, 42>>, <<357554600, 358434064, 4>>>>,
       <<<<142548087, 189198746, 60>>, <<273464682, 315959394, 9>>, <<398602346, 477471826, 18>>, <<532004338, 376783165, 26>>>>>>,
     <<<<<<428973967, 211769619, 0>>, <<444495883, 107518008, 41>>, <<426597564, 248945755, 48>>, <<233441423, 45333174, 13>>>>,
       <<<<477322704, 124841859, 14>>, <<528478597, 456909009, 26>>, <<278733749, 105449855, 53>>, <<495901617, 324727695, 5>>>>,
       <<<<434888968, 47391803, 7>>, <<467042822, 37337234, 38>>, <<468950801, 25388998, 39>>, <<444889803, 90014550, 11>>>>>>,
     <<<<<<252205139, 162184873, 37>>, <<394399060, 63081923, 47>>, <<354249487, 486272478, 46>>, <<329641200, 330471050, 24>>>>,
       <<<<393649936, 407641804, 40>>, <<304791795, 403750094, 21>>, <<212828595, 85010252, 25>>, <<370713644, 234190377, 17>>>>,
       <<<<499837592, 391192777, 36>>, <<295307150, 55446530, 46>>, <<275833493, 410078321, 27>>, <<373224690, 478712132, 20>>>>>>,
     <<<<<<535852989, 203891689, 23>>, <<374813610, 425232642, 57>>, <<23137664, 14970687, 44>>, <<465594862, 380362400, 9>>>>,
       <<<<163652835, 372804782, 49>>, <<440467568, 120895848, 15>>, <<428585483, 133820733, 22>>, <<209399168, 162826201, 12>>>>,
       <<<<274836864, 407078080, 63>>, <<239332089, 48289056, 42>>, <<239994279, 55115090, 20>>, <<485013867, 413404841, 1>>>>>>,
     <<<<<<228755695, 55288734, 27>>, <<219810659, 240382701, 0>>, <<231486799, 261620269, 1>>, <<351853807, 466867254, 4>>>>,
       <<<<372864243, 226095477, 43>>, <<62252869, 396107184, 3>>, <<416871463, 180526442, 59>>, <<282301606, 331669037, 26>>>>,
       <<<<529146172, 359492865, 4>>, <<78674358, 328037605, 6>>, <<358380499, 109278908, 34>>, <<518597396, 303354073, 19>>>>>>,
     <<<<<<110583158, 298296501, 8>>, <<72998155, 340559051, 0>>, <<465665044, 75637100, 27>>, <<479736328, 31196927, 1>>>>,
       <<<<10865860, 106690441, 49>>, <<392288830, 496757043, 28>>, <<453040118, 71343548, 38>>, <<128090991, 116792961, 20>>>>,
       <<<<108694752, 42995693, 15>>, <<138569987, 168381405, 44>>, <<362329651, 510575212, 0>>, <<129257319, 470455574, 1>>>>>>,
     <<<<<<35040130, 320434044, 26>>, <<182459813, 434892794, 33>>, <<120631759, 480459825, 56>>, <<311535134, 36550737, 20>>>>,
       <<<<190544632, 240235235, 17>>, <<257337227, 484957716, 23>>, <<60230224, 151110201, 59>>, <<49586401, 6785454, 18>>>>,
       <<<<318914879, 35580787, 50>>, <<458887196, 73084342, 18>>, <<526178630, 383516394, 54>>, <<144277738, 272536238, 10>>>>>>
   >>
  >>

\* the eight 32-bit words of the scalar of job n: jobs 0..5 are the parties of
\* the key exchange (Alice and Bob of RFC 7748 6.1; two parties whose clamped
\* scalars multiply to 1 modulo the group order; two arbitrary parties), jobs
\* 6..13 the scalars of the direct shared-secret computations (job 6 is Bob
\* with Alice's public key, jobs 7, 8 and 9 the vectors of RFC 7748 5.2, the
\* second one with and without bit 255 of its u-coordinate)
ScalarWords(n) ==
  CASE n = 0 -> <<<<174917495, 0, 0>>, <<497358963, 3, 0>>, <<314644028, 3, 0>>, <<90616401, 2, 0>>, <<120540383, 4, 0>>, <<177848555, 1, 0>>, <<100366257, 5, 0>>, <<170703133, 1, 0>>>>
    [] n = 1 -> <<<<503884637, 3, 0>>, <<193612386, 2, 0>>, <<192930169, 4, 0>>, <<101613699, 7, 0>>, <<162610031, 1, 0>>, <<498472998, 7, 0>>, <<126562076, 1, 0>>, <<199264511, 7, 0>>>>
    [] n = 2 -> <<<<162767189, 2, 0>>, <<358902910, 6, 0>>, <<157031033, 3, 0>>, <<259365210, 0, 0>>, <<54994357, 6, 0>>, <<528069750, 3, 0>>, <<318260379, 1, 0>>, <<104547136, 1, 0>>>>
    [] n = 3 -> <<<<183406549, 5, 0>>, <<518841051, 5, 0>>, <<356975572, 4, 0>>, <<269520738, 7, 0>>, <<310780091, 1, 0>>, <<355296940, 4, 0>>, <<257894113, 2, 0>>, <<358840854, 7, 0>>>>
    [] n = 4 -> <<<<409023094, 2, 0>>, <<168181143, 5, 0>>, <<25918698, 3, 0>>, <<351158652, 3, 0>>, <<207218826, 0, 0>>, <<441860866, 3, 0>>, <<192850445, 0, 0>>, <<454449338, 0, 0>>>>
    [] n = 5 -> <<<<244563493, 4, 0>>, <<465069360, 6, 0>>, <<184969977, 6, 0>>, <<246473429, 5, 0>>, <<52892328, 4, 0>>, <<202898515, 0, 0>>, <<451878833, 5, 0>>, <<354421977, 4, 0>>>>
    [] n = 6 -> <<<<503884637, 3, 0>>, <<193612386, 2, 0>>, <<192930169, 4, 0>>, <<101613699, 7, 0>>, <<162610031, 1, 0>>, <<498472998, 7, 0>>, <<126562076, 1, 0>>, <<199264511, 7, 0>>>>
    [] n = 7 -> <<<<350840395, 6, 0>>, <<476558545, 1, 0>>, <<287756890, 4, 0>>, <<359300501, 7, 0>>, <<23337921, 1, 0>>, <<335669984, 6, 0>>, <<504800300, 4, 0>>, <<230299769, 0, 0>>>>
    [] n = 8 -> <<<<350840395, 6, 0>>, <<476558545, 1, 0>>, <<287756890, 4, 0>>, <<359300501, 7, 0>>, <<23337921, 1, 0>>, <<335669984, 6, 0>>, <<504800300, 4, 0>>, <<230299769, 0, 0>>>>
    [] n = 9 -> <<<<199444133, 3, 0>>, <<494686960, 4, 0>>, <<185931323, 2, 0>>, <<492717698, 6, 0>>, <<172758114, 0, 0>>, <<408616129, 0, 0>>, <<69364304, 2, 0>>, <<77219002, 6, 0>>>>
    [] n = 10 -> <<<<199444133, 3, 0>>, <<494686960, 4, 0>>, <<185931323, 2, 0>>, <<492717698, 6, 0>>, <<172758114, 0, 0>>, <<408616129, 0, 0>>, <<69364304, 2, 0>>, <<77219002, 6, 0>>>>
    [] n = 11 -> <<<<174917495, 0, 0>>, <<497358963, 3, 0>>, <<314644028, 3, 0>>, <<90616401, 2, 0>>, <<120540383, 4, 0>>, <<177848555, 1, 0>>, <<100366257, 5, 0>>, <<170703133, 1, 0>>>>
    [] n = 12 -> <<<<503884637, 3, 0>>, <<193612386, 2, 0>>, <<192930169, 4, 0>>, <<101613699, 7, 0>>, <<162610031, 1, 0>>, <<498472998, 7, 0>>, <<126562076, 1, 0>>, <<199264511, 7, 0>>>>
    [] n = 13 -> <<<<350840395, 6, 0>>, <<476558545, 1, 0>>, <<287756890, 4, 0>>, <<359300501, 7, 0>>, <<23337921, 1, 0>>, <<335669984, 6, 0>>, <<504800300, 4, 0>>, <<230299769, 0, 0>>>>

\* the nine limbs of the peer key of direct job 6 + n (mpi29_conv_32to29 of the
\* 256-bit key: limb 8 keeps bits 232..255)
PeerLimbs(n) ==
  CASE n = 0 -> <<166731909, 87655496, 526572821, 243100088, 200332719, 471008925, 330289256, 357684532, 6966939>>
    [] n = 1 -> <<302981605, 411780032, 91094324, 477104955, 498275018, 3639411, 334559475, 417938089, 9675797>>
    [] n = 2 -> <<302981605, 411780032, 91094324, 477104955, 498275018, 3639411, 334559475, 417938089, 1287189>>
    [] n = 3 -> <<124312550, 427918019, 275058038, 526534985, 107423685, 429094418, 71363798, 437567605, 4988075>>
    [] n = 4 -> <<124312550, 427918019, 275058038, 526534985, 107423685, 429094418, 71363798, 437567605, 13376683>>
    [] n = 5 -> <<9, 0, 0, 0, 0, 0, 0, 0, 0>>
    [] n = 6 -> <<166731909, 87655496, 526572821, 243100088, 200332719, 471008925, 330289256, 357684532, 15355547>>
    [] n = 7 -> <<2, 0, 0, 0, 0, 0, 0, 0, 0>>

\* the public key of party n: a one-lane run of keygen
RefPk(n) ==
  CASE n = 0 -> <<166731909, 87655496, 526572821, 243100088, 200332719, 471008925, 330289256, 357684532, 6966939>>
    [] n = 1 -> <<500932318, 101444571, 408351981, 197777796, 406057843, 472769569, 313865629, 232951775, 5188488>>
    [] n = 2 -> <<197785303, 175718455, 25389758, 201777576, 420052288, 420621388, 498212550, 485204214, 6307486>>
    [] n = 3 -> <<416025507, 398112726, 144779632, 92785145, 361217290, 492700403, 136966396, 203498708, 8207542>>
    [] n = 4 -> <<284121671, 525119874, 355708728, 409879646, 410188802, 208326492, 174073022, 507348424, 2631517>>
    [] n = 5 -> <<61594562, 485426830, 154762953, 17716912, 380043295, 298707209, 211034981, 2286507, 586386>>

\* the shared secret of job n: a one-lane run of sharedsecret
RefSS(n) ==
  CASE n = 0 -> <<463297866, 158233890, 249797816, 510329320, 401474128, 144958608, 30985851, 63411070, 4331286>>
    [] n = 1 -> <<463297866, 158233890, 249797816, 510329320, 401474128, 144958608, 30985851, 63411070, 4331286>>
    [] n = 2 -> <<536870902, 536870911, 536870911, 536870911, 536870911, 536870911, 536870911, 536870911, 8388607>>
    [] n = 3 -> <<536870902, 536870911, 536870911, 536870911, 536870911, 536870911, 536870911, 536870911, 8388607>>
    [] n = 4 -> <<453809288, 3986193, 203855981, 492522848, 401856066, 480188091, 525163440, 218788778, 7989704>>
    [] n = 5 -> <<453809288, 3986193, 203855981, 492522848, 401856066, 480188091, 525163440, 218788778, 7989704>>
    [] n = 6 -> <<463297866, 158233890, 249797816, 510329320, 401474128, 144958608, 30985851, 63411070, 4331286>>
    [] n = 7 -> <<322302933, 365409867, 186705156, 139083165, 331734675, 3528608, 471027520, 363828998, 4882085>>
    [] n = 8 -> <<350145429, 210191284, 422272671, 124872889, 93896583, 264025133, 60377734, 256679679, 5732780>>
    [] n = 9 -> <<391502531, 104287465, 447030180, 287040667, 516105456, 237273575, 290708932, 250257654, 5408162>>
    [] n = 10 -> <<219532433, 39762056, 15590805, 263313489, 466109592, 446503160, 439886522, 158174051, 4684017>>
    [] n = 11 -> <<166731909, 87655496, 526572821, 243100088, 200332719, 471008925, 330289256, 357684532, 6966939>>
    [] n = 12 -> <<276517124, 304877950, 406277650, 404688113, 172581791, 431237861, 273763124, 340122162, 7240922>>
    [] n = 13 -> <<498919966, 325988397, 128078141, 188812112, 265659019, 140769845, 196899352, 336865760, 8217965>>

\* u(k' P) of job n, canonical, by the formulas of RFC 7748
RefU1(n) ==
  CASE n = 0 -> <<463297866, 158233890, 249797816, 510329320, 401474128, 144958608, 30985851, 63411070, 4331286>>
    [] n = 1 -> <<463297866, 158233890, 249797816, 510329320, 401474128, 144958608, 30985851, 63411070, 4331286>>
    [] n = 2 -> <<9, 0, 0, 0, 0, 0, 0, 0, 0>>
    [] n = 3 -> <<9, 0, 0, 0, 0, 0, 0, 0, 0>>
    [] n = 4 -> <<453809288, 3986193, 203855981, 492522848, 401856066, 480188091, 525163440, 218788778, 7989704>>
    [] n = 5 -> <<453809288, 3986193, 203855981, 492522848, 401856066, 480188091, 525163440, 218788778, 7989704>>
    [] n = 6 -> <<463297866, 158233890, 249797816, 510329320, 401474128, 144958608, 30985851, 63411070, 4331286>>
    [] n = 7 -> <<322302933, 365409867, 186705156, 139083165, 331734675, 3528608, 471027520, 363828998, 4882085>>
    [] n = 8 -> <<350145429, 210191284, 422272671, 124872889, 93896583, 264025133, 60377734, 256679679, 5732780>>
    [] n = 9 -> <<391502531, 104287465, 447030180, 287040667, 516105456, 237273575, 290708932, 250257654, 5408162>>
    [] n = 10 -> <<219532433, 39762056, 15590805, 263313489, 466109592, 446503160, 439886522, 158174051, 4684017>>
    [] n = 11 -> <<166731909, 87655496, 526572821, 243100088, 200332719, 471008925, 330289256, 357684532, 6966939>>
    [] n = 12 -> <<276517124, 304877950, 406277650, 404688113, 172581791, 431237861, 273763124, 340122162, 7240922>>
    [] n = 13 -> <<498919966, 325988397, 128078141, 188812112, 265659019, 140769845, 196899352, 336865760, 8217965>>

\* u((k'+1) P) of job n, canonical
RefU2(n) ==
  CASE n = 0 -> <<520051282, 47192495, 216848220, 7018710, 397561656, 85374754, 105389127, 162460263, 8281625>>
    [] n = 1 -> <<324858252, 38912046, 185328621, 497302767, 45864466, 357541119, 144971284, 69853292, 307927>>
    [] n = 2 -> <<155491673, 17505962, 362560508, 219356667, 104734181, 447847464, 170581380, 20814535, 3771596>>
    [] n = 3 -> <<449243200, 419627886, 83117952, 426313173, 228621047, 83344063, 483369830, 308143532, 6409995>>
    [] n = 4 -> <<160423549, 126686675, 453966377, 171667933, 490280884, 345335148, 364037285, 191699739, 6006470>>
    [] n = 5 -> <<10860410, 149511905, 359430474, 182029876, 65642508, 272235330, 15362180, 204525649, 8051395>>
    [] n = 6 -> <<324858252, 38912046, 185328621, 497302767, 45864466, 357541119, 144971284, 69853292, 307927>>
    [] n = 7 -> <<375605704, 63345066, 302727832, 24119989, 385180529, 319610602, 284286993, 270880234, 5559691>>
    [] n = 8 -> <<22509843, 444515852, 376718684, 351333246, 347966027, 217486522, 446624186, 337586008, 7852725>>
    [] n = 9 -> <<281520963, 160637156, 126780702, 19141027, 450422329, 77383989, 262518266, 64959241, 7334678>>
    [] n = 10 -> <<213557085, 356330463, 74933454, 453845279, 395854820, 62402982, 449809097, 283124914, 8382169>>
    [] n = 11 -> <<495938550, 337357909, 234164516, 270557228, 337966870, 350585540, 304407782, 202654004, 4748832>>
    [] n = 12 -> <<418063328, 60764823, 18281441, 27250977, 345924127, 148274332, 432298877, 487764249, 5385650>>
    [] n = 13 -> <<179007271, 238953023, 227768513, 264506900, 276556957, 125248014, 286516101, 308906114, 7411159>>

\* affine x of k' B on the twisted Edwards curve for party n
RefEdX(n) ==
  CASE n = 0 -> <<26600387, 2829131, 84754180, 381866649, 154194205, 379053539, 189010477, 293338463, 7767034>>
    [] n = 1 -> <<485360685, 411222447, 90001940, 264641571, 256406338, 447397315, 209092843, 508112392, 2363726>>
    [] n = 2 -> <<175314375, 70696512, 468497074, 5761456, 403317380, 144496413, 324669928, 132023839, 4761665>>
    [] n = 3 -> <<248030475, 221622209, 439545038, 68611355, 257090641, 184834127, 263328900, 48687710, 5660776>>
    [] n = 4 -> <<326216770, 453828314, 257923552, 332033873, 340519817, 330634200, 279641126, 253290723, 7950532>>
    [] n = 5 -> <<453453292, 112476237, 299720085, 200788452, 429634484, 269227601, 224942198, 35534846, 976390>>

\* affine y of k' B on the twisted Edwards curve for party n
RefEdY(n) ==
  CASE n = 0 -> <<435298433, 386651676, 510155058, 223113708, 245358508, 467794100, 104040468, 254715784, 5212377>>
    [] n = 1 -> <<488197871, 298120979, 480410042, 455837159, 386781508, 170747621, 149423072, 272505794, 8046196>>
    [] n = 2 -> <<360156288, 115319003, 57312430, 285796813, 368655057, 483907442, 423859807, 313139858, 112158>>
    [] n = 3 -> <<243637456, 64617430, 208679179, 389133711, 486368692, 244392609, 54177219, 247700589, 2534778>>
    [] n = 4 -> <<352263291, 417240569, 104381595, 488925438, 515275120, 440241099, 327499632, 316912610, 4563587>>
    [] n = 5 -> <<8422016, 194118150, 48803200, 302122824, 164303444, 40925910, 440651527, 216005648, 4054075>>

\* ------------------------------ naturals in radix 2^29, to state the properties
\* A natural number is a little-endian sequence of digits below 2^29.
Digit(x, i) == IF i <= Len(x) THEN x[i] ELSE 0

MaxLen(x, y) == IF Len(x) >= Len(y) THEN Len(x) ELSE Len(y)

\* x * c + y for a factor c below 2^14, on n digits plus the last carry
RECURSIVE NatMulAddRec(_, _, _, _, _, _, _)
NatMulAddRec(x, c, y, n, i, carry, out) ==
  IF i > n THEN Append(out, carry)
  ELSE LET dl == Digit(x, i) % P15
           dh == (Digit(x, i) \div P15) * c
           s == dl * c + (dh % P14) * P15 + Digit(y, i) + carry
       IN NatMulAddRec(x, c, y, n, i + 1, (s \div R29) + (dh \div P14),
                       Append(out, s % R29))

NatMulAdd(x, c, y) == NatMulAddRec(x, c, y, MaxLen(x, y), 1, 0, <<>>)

NatAdd(x, y) == NatMulAdd(x, 1, y)

\* x * d for a digit d below 2^29, taken in pieces of 14, 14 and 1 bits
NatScale(x, d) ==
  NatMulAdd(NatMulAdd(NatMulAdd(x, d \div (P14 * P14), <<>>), P14,
                      NatMulAdd(x, (d \div P14) % P14, <<>>)), P14,
            NatMulAdd(x, d % P14, <<>>))

\* x * y, digit by digit of y from the top; st = <<j, product of x and the digits above j>>
RECURSIVE NatMulRec(_, _, _)
NatMulRec(x, y, st) ==
  IF st[1] = 0 THEN st[2]
  ELSE NatMulRec(x, y, <<st[1] - 1, NatAdd(<<0>> \o st[2], NatScale(x, y[st[1]]))>>)

NatMul(x, y) == NatMulRec(x, y, <<Len(y), <<>> >>)

\* x < y
RECURSIVE NatLessRec(_, _, _)
NatLessRec(x, y, i) ==
  IF i = 0 THEN FALSE
  ELSE IF Digit(x, i) < Digit(y, i) THEN TRUE
  ELSE IF Digit(x, i) > Digit(y, i) THEN FALSE
  ELSE NatLessRec(x, y, i - 1)

NatLess(x, y) == NatLessRec(x, y, MaxLen(x, y))

NatEq(x, y) == \A i \in 1..MaxLen(x, y) : Digit(x, i) = Digit(y, i)

\* x - y for x >= y
RECURSIVE NatSubRec(_, _, _, _, _)
NatSubRec(x, y, i, borrow, out) ==
  IF i > Len(x) THEN out
  ELSE LET s == Digit(x, i) - Digit(y, i) - borrow
       IN IF s < 0 THEN NatSubRec(x, y, i + 1, 1, Append(out, s + R29))
          ELSE NatSubRec(x, y, i + 1, 0, Append(out, s))

NatSub(x, y) == NatSubRec(x, y, 1, 0, <<>>)

\* floor(x / 2^(29*q + r)) for r in 0..28
NatShr(x, q, r) ==
  [i \in 1..(IF Len(x) > q THEN Len(x) - q ELSE 0) |->
     (Digit(x, i + q) \div Pow2(r)) + (Digit(x, i + q + 1) % Pow2(r)) * Pow2(BITS29 - r)]

\* x mod 2^(29*q + r) for r in 0..28
NatLow(x, q, r) ==
  [i \in 1..(q + 1) |-> IF i <= q THEN Digit(x, i) ELSE Digit(x, i) % Pow2(r)]

\* the value of lane l of the field element a: sum of limb_i * 2^(29 i), each
\* limb taken as the full 64-bit lane
LaneRaw(a, l) ==
  [k \in 1..(NWORDS + 2) |->
     (IF k <= NWORDS THEN a[k][l][1] ELSE 0)
     + (IF k >= 2 /\ k - 1 <= NWORDS THEN a[k - 1][l][2] ELSE 0)
     + (IF k >= 3 /\ k - 2 <= NWORDS THEN a[k - 2][l][3] ELSE 0)]

LaneNat(a, l) == NatAdd(LaneRaw(a, l), <<>>)

\* p = 2^255 - 19 and p* = 64 p = 2^261 - 1216
PrimeP == <<R29 - 19, MASK29, MASK29, MASK29, MASK29, MASK29, MASK29, MASK29, 2 ^ 23 - 1>>
PrimePS == <<R29 - CONSTC, MASK29, MASK29, MASK29, MASK29, MASK29, MASK29, MASK29, MASK29>>

\* x mod p: fold the part above 2^255 times 19 until nothing is left above,
\* then subtract p if needed
RECURSIVE NatFoldP(_)
NatFoldP(x) ==
  LET hi == NatShr(x, 8, 23)
  IN IF \A i \in 1..Len(hi) : hi[i] = 0
     THEN NatLow(x, 8, 23)
     ELSE NatFoldP(NatMulAdd(hi, 19, NatLow(x, 8, 23)))

NatModP(x) ==
  LET f == NatFoldP(x)
  IN IF NatLess(f, PrimeP) THEN f ELSE NatSub(f, PrimeP)

\* x mod p*, in the same way with the fold at 2^261
RECURSIVE NatFoldPS(_)
NatFoldPS(x) ==
  LET hi == NatShr(x, 9, 0)
  IN IF \A i \in 1..Len(hi) : hi[i] = 0
     THEN NatLow(x, 9, 0)
     ELSE NatFoldPS(NatMulAdd(hi, CONSTC, NatLow(x, 9, 0)))

NatModPS(x) ==
  LET f == [i \in 1..NWORDS |-> Digit(NatFoldPS(x), i)]
  IN IF NatLess(f, PrimePS) THEN f ELSE NatSub(f, PrimePS)

\* nine digits of a small natural
NatOf(n) == <<n, 0, 0, 0, 0, 0, 0, 0, 0>>

\* the lowest n digits of x
NatCut(x, n) == SubSeq(x, 1, IF Len(x) < n THEN Len(x) ELSE n)

\* the value of lane l of a number below 2^261 held in 32-bit words, from the
\* top word down; st = <<w, value of the words above w>>
RECURSIVE WordsNatRec(_, _, _)
WordsNatRec(k, l, st) ==
  IF st[1] = 0 THEN st[2]
  ELSE WordsNatRec(k, l, <<st[1] - 1,
         NatCut(NatMulAdd(NatMulAdd(NatMulAdd(st[2], P14, <<>>), P14, <<>>), 16,
                          <<k[st[1]][l][1], k[st[1]][l][2]>>), 9)>>)

WordsNat(k, l) == WordsNatRec(k, l, <<Len(k), <<>> >>)

\* the byte in lane l of e read as a signed byte
SignedByte(e, l) == IF e[l][1] >= 128 THEN e[l][1] - 256 ELSE e[l][1]

\* 16 * x + d for a signed digit d (the result is not negative), cut to the
\* digits below 2^261
NibHorner(x, d) ==
  NatCut(IF d >= 0 THEN NatMulAdd(x, 16, <<d>>) ELSE NatSub(NatMulAdd(x, 16, <<>>), <<0 - d>>), 9)

\* the sum of e_i * 16^i in lane l, from the top digit down, four digits at a
\* time; st = <<i, sum of the digits above i>>
RECURSIVE NibSumRec(_, _, _)
NibSumRec(e, l, st) ==
  IF st[1] = 0 THEN st[2]
  ELSE NibSumRec(e, l, <<st[1] - 4,
         NibHorner(NibHorner(NibHorner(NibHorner(st[2], SignedByte(e[st[1]], l)),
                                       SignedByte(e[st[1] - 1], l)),
                             SignedByte(e[st[1] - 2], l)),
                   SignedByte(e[st[1] - 3], l))>>)

NibSum(e, l) == NibSumRec(e, l, <<Len(e), <<>> >>)

\* an array of words as a one-lane vector array
OneLane(a) == [w \in 1..Len(a) |-> <<a[w]>>]

\* the digits of an array of limbs below 2^29
LimbsNat(a) == [i \in 1..Len(a) |-> a[i][1]]

\* arithmetic modulo p = 2^255 - 19 on nine digits
FpNat(x) == NatCut(NatAdd(NatModP(x), <<>>), NWORDS)

FpAdd(x, y) == FpNat(NatAdd(x, y))

FpSub(x, y) == FpNat(NatAdd(x, NatSub(PrimeP, FpNat(y))))

FpMul(x, y) == FpNat(NatMul(x, y))

FpLane(a, l) == FpNat(LaneNat(a, l))

\* ------------------------------------------------------------------ the state
VARIABLES
  fop,      \* field-arithmetic harness: the operation applied last
  fa, fb,   \* its operands (4-lane field elements)
  fc,       \* its small operand: the constant of mul29, the flags of cswap
  fr, fs,   \* its result (and the second result of cswap)
  fn,       \* the number of operations applied so far
  ireg,     \* inversion: the field elements a, t0..t3, r of mpi29_gfp_inv_avx2
  ipc,      \* inversion: the index of the next call in InvProg (0: not running)
  nsqr,     \* inversion: squarings called so far
  nmul,     \* inversion: multiplications called so far
  pc,       \* key exchange: the place in keygen / sharedsecret
  jobs,     \* the job (scalar, peer key, reference values) of each lane
  tab,      \* the layout of the base-point table in use
  sk,       \* the scalars, eight 32-bit words per lane
  kp,       \* the pruned scalar of mon_mul_varbase_avx2
  nib,      \* the 64 signed nibbles e of ted_mul_fixbase_avx2
  ei,       \* the loop counter i of the running loop
  acc,      \* the accumulator h (extended point) of ted_mul_fixbase_avx2
  pt,       \* the point r of ted_mul_fixbase_avx2 / p of mon_mul_fixbase_avx2
  pk,       \* keygen's result
  pkb,      \* the peer keys handed to sharedsecret
  reg,      \* the ladder: p1 = (px, py, pz), p2 = (qx, qy, qz) and xd
  sprev,    \* the previous scalar bit s of the ladder
  swp,      \* the parity, per lane, of the point swaps applied so far in the ladder
  raw,      \* mon_mul_varbase_avx2's result
  ss,       \* sharedsecret's result
  cnt,      \* calls so far: table queries, point additions, doublings,
            \* ladder steps, point cswaps, inversions
  qi, qpos, \* the loop counter and the column of the last table query
  qreads,   \* the table addresses the last query loaded
  qb,       \* the nibbles b handed to the last table query
  qmask,    \* the nine masks the last query built
  qsel,     \* the chunks xP, yP, zP the last query selected, before the sign fix
  cub,      \* serialisation: what a shift of a 32-bit word by 32 gives in this build
  cw,       \* serialisation: the eight 32-bit words to convert
  c29,      \* the nine 29-bit limbs mpi29_conv_32to29 wrote
  c32       \* the nine 32-bit words mpi29_conv_29to32 wrote

fvars == <<fop, fa, fb, fc, fr, fs, fn>>

ivars == <<ireg, ipc, nsqr, nmul>>

evars == <<pc, jobs, tab, sk, kp, nib, ei, acc, pt, pk, pkb, reg, sprev, swp, raw, ss, cnt, qi, qpos, qreads, qb, qmask, qsel>>

cvars == <<cub, cw, c29, c32>>

vars == <<fvars, ivars, cvars, evars>>

\* the parts of the state a harness does not use
FieldIdle == fop = "none" /\ fa = FZero /\ fb = FZero /\ fc = 0 /\ fr = FZero /\ fs = FZero /\ fn = 0

InvIdle == ireg = InvEntry(FZero) /\ ipc = 0 /\ nsqr = 0 /\ nmul = 0

ConvIdle == cub = "zero" /\ cw = <<>> /\ c29 = <<>> /\ c32 = <<>>

NoCalls == [query |-> 0, add |-> 0, dbl |-> 0, step |-> 0, cswap |-> 0, inv |-> 0]

\* the locals of the key exchange before their first write
EcdhLocals ==
  /\ kp = <<>> /\ nib = <<>> /\ ei = 0
  /\ acc = ted_point_init_ext_avx2
  /\ pt = [x |-> FZero, y |-> FZero, z |-> FZero]
  /\ pk = FZero
  /\ reg = LadderEntry(FZero)
  /\ sprev = VZERO /\ swp = VZERO /\ raw = FZero /\ ss = FZero
  /\ cnt = NoCalls
  /\ qi = 0 /\ qpos = 0 /\ qreads = {}
  /\ qb = VZERO /\ qmask = <<>> /\ qsel = <<>>

EcdhIdle ==
  /\ pc = "idle" /\ jobs = <<>> /\ tab = "consecutive" /\ sk = <<>> /\ pkb = FZero
  /\ EcdhLocals

\* --------------------------------------------- operands of the field harness
\* number of 4-lane operands Init chooses from, and the length of a chain of
\* operations applied to them
NElem == 5
MaxFOps == 2

\* limb i (0..8) of the n-th single-lane operand: 0, 1, all limbs 2^29-1, p,
\* 2431 + 5 * 2^232, 2^255 - 1, p + 1, 9, and from then on scattered limbs
LimbOf(n, i) ==
  CASE n = 0 -> 0
    [] n = 1 -> IF i = 0 THEN 1 ELSE 0
    [] n = 2 -> MASK29
    [] n = 3 -> PrimeP[i + 1]
    [] n = 4 -> IF i = 0 THEN 2 * CONSTC - 1 ELSE IF i = 8 THEN 5 ELSE 0
    [] n = 5 -> IF i = 8 THEN 2 ^ 23 - 1 ELSE MASK29
    [] n = 6 -> IF i = 0 THEN R29 - 18 ELSE PrimeP[i + 1]
    [] n = 7 -> IF i = 0 THEN 9 ELSE 0
    [] OTHER -> LET x == (n * 1009 + i * 9176 + 1234) % 46337
                IN (x * x) % R29

\* the k-th 4-lane operand: lane l holds single-lane operand 4k + l
Elem(k) ==
  [i \in 1..NWORDS |->
     <<Word(LimbOf(4 * k, i - 1)), Word(LimbOf(4 * k + 1, i - 1)),
       Word(LimbOf(4 * k + 2, i - 1)), Word(LimbOf(4 * k + 3, i - 1))>>]

\* the 29-bit constants handed to mul29: (A-2)/4, 2 and the largest one
C29Set == {(CONSTA - 2) \div 4, 2, MASK29}

\* the swap flags handed to cswap, one 0/1 flag per lane
FlagSet == {<<Word(0), Word(1), Word(0), Word(1)>>, <<Word(1), Word(1), Word(0), Word(0)>>}

InitField ==
  /\ fop = "none"
  /\ \E i \in 0..(NElem - 1) : fa = Elem(i)
  /\ \E j \in 0..(NElem - 1) : fb = Elem(j)
  /\ fc = 0
  /\ fr = fa
  /\ fs = fb
  /\ fn = 0
  /\ InvIdle
  /\ ConvIdle
  /\ EcdhIdle

\* one call of a field operation on (the last result, the second operand)
FStep(op, c, r, s) ==
  /\ fn < MaxFOps
  /\ fop' = op
  /\ fa' = fr
  /\ fb' = fb
  /\ fc' = c
  /\ fr' = r
  /\ fs' = s
  /\ fn' = fn + 1
  /\ UNCHANGED <<ivars, cvars, evars>>

FAdd == FStep("add", 0, mpi29_gfp_add_avx2(fr, fb), fs)

FSub == FStep("sub", 0, mpi29_gfp_sub_avx2(fr, fb), fs)

FSbc == FStep("sbc", 0, mpi29_gfp_sbc_avx2(fr, fb), fs)

FMul == FStep("mul", 0, mpi29_gfp_mul_avx2(fr, fb), fs)

FSqr == FStep("sqr", 0, mpi29_gfp_sqr_avx2(fr), fs)

FMul29 == \E c \in C29Set : FStep("mul29", c, mpi29_gfp_mul29_avx2(fr, c), fs)

FCopy == FStep("copy", 0, mpi29_copy_avx2(fr), fs)

FFinalModp == FStep("final_modp", 0, final_modp(fr), fs)

FCswap ==
  \E b \in FlagSet :
    LET sw == mpi29_cswap_avx2(fr, fb, b)
    IN FStep("cswap", b, sw[1], sw[2])

NextField ==
  \/ FAdd
  \/ FSub
  \/ FSbc
  \/ FMul
  \/ FSqr
  \/ FMul29
  \/ FCopy
  \/ FFinalModp
  \/ FCswap

SpecField == InitField /\ [][NextField]_vars

\* ------------------------------------------------------- the inversion, stepwise
\* number of 4-lane operands the inversion harness starts from
NInv == 4

\* one call of mpi29_gfp_inv_avx2's body
InvStep ==
  /\ ipc \in 1..Len(InvProg)
  /\ ireg' = Exec(ireg, InvProg[ipc])
  /\ ipc' = ipc + 1
  /\ nsqr' = IF InvProg[ipc][1] = "sqr" THEN nsqr + 1 ELSE nsqr
  /\ nmul' = IF InvProg[ipc][1] = "mul" THEN nmul + 1 ELSE nmul

InvDone == ipc = Len(InvProg) + 1

InitInv ==
  /\ FieldIdle
  /\ ConvIdle
  /\ EcdhIdle
  /\ \E k \in 0..(NInv - 1) : ireg = InvEntry(Elem(k))
  /\ ipc = 1
  /\ nsqr = 0
  /\ nmul = 0

InvAlone == InvStep /\ UNCHANGED <<fvars, cvars, evars>>

NextInv == InvAlone

SpecInv == InitInv /\ [][NextInv]_vars

\* ------------------------------------------------- keygen and sharedsecret
\* number of 4-lane key exchanges, of 4-lane direct shared-secret computations
\* and of 4-lane fixed-base multiplications Init chooses from
NDh == 1
NX == 1
NFix == 1

\* the jobs of the four lanes: exchange d runs the pairs d and d+1 of the three
\* pairs of parties (lanes 0, 1 and lanes 2, 3 are partners), direct
\* computation x runs the direct jobs 4x .. 4x+3
DhJobs(d) == <<2 * (d % 3), 2 * (d % 3) + 1, 2 * ((d + 1) % 3), 2 * ((d + 1) % 3) + 1>>

XJobs(x) == <<6 + ((4 * x) % 8), 7 + ((4 * x) % 8), 8 + ((4 * x) % 8), 9 + ((4 * x) % 8)>>

\* sk[i] = VSET64(sk_d[i], sk_c[i], sk_b[i], sk_a[i])
JobScalars(J) ==
  [w \in 1..8 |-> VSET64(ScalarWords(J[4])[w], ScalarWords(J[3])[w], ScalarWords(J[2])[w], ScalarWords(J[1])[w])]

\* a 4-lane field element from the limbs L(J[l]) of each lane's job
JobElem(J, L(_)) ==
  [i \in 1..NWORDS |-> <<Word(L(J[1])[i]), Word(L(J[2])[i]), Word(L(J[3])[i]), Word(L(J[4])[i])>>]

DirectPeer(n) == PeerLimbs(n - 6)

Base == IF tab = "odd" THEN base_odd ELSE base_consecutive

\* ted_mul_fixbase_avx2 up to its first loop: pruning, nibbles, neutral element
FixStart ==
  /\ pc = "keygen"
  /\ nib' = ted_conv_scalar2nibble_avx2(prune(sk))
  /\ acc' = ted_point_init_ext_avx2
  /\ ei' = 1
  /\ pc' = "fix_odd"
  /\ UNCHANGED <<fvars, cvars, ivars, jobs, tab, sk, kp, pt, pk, pkb, reg, sprev, swp, raw, ss, cnt, qi, qpos, qreads, qb, qmask, qsel>>

\* one iteration of a loop of ted_mul_fixbase_avx2: the query of column
\* i >> 1 with nibble e[i] and the addition of the point to h
FixLoopBody(after) ==
  /\ pt' = ted_point_query_table_avx2(Base, ei \div 2, nib[ei + 1])
  /\ acc' = ted_point_add_avx2(acc, pt')
  /\ qi' = ei
  /\ qpos' = ei \div 2
  /\ qreads' = QueryReads(ei \div 2)
  /\ qb' = nib[ei + 1]
  /\ qmask' = QueryMasks(VABS8(nib[ei + 1]))
  /\ qsel' = query_select(qmask', Base[(ei \div 2) + 1])
  /\ cnt' = [cnt EXCEPT !.query = @ + 1, !.add = @ + 1]
  /\ IF ei + 2 < 64 THEN ei' = ei + 2 /\ pc' = pc ELSE ei' = 0 /\ pc' = after
  /\ UNCHANGED <<fvars, cvars, ivars, jobs, tab, sk, kp, nib, pk, pkb, reg, sprev, swp, raw, ss>>

FixOdd == pc = "fix_odd" /\ FixLoopBody("fix_dbl")

FixEven == pc = "fix_even" /\ FixLoopBody("fix_ret")

\* one of the four doublings between the loops
FixDbl ==
  /\ pc = "fix_dbl"
  /\ acc' = ted_point_dbl_avx2(acc)
  /\ cnt' = [cnt EXCEPT !.dbl = @ + 1]
  /\ IF ei + 1 < 4 THEN ei' = ei + 1 /\ pc' = pc ELSE ei' = 0 /\ pc' = "fix_even"
  /\ UNCHANGED <<fvars, cvars, ivars, jobs, tab, sk, kp, nib, pt, pk, pkb, reg, sprev, swp, raw, ss, qi, qpos, qreads, qb, qmask, qsel>>

\* the return of ted_mul_fixbase_avx2 (y and z are copied out) and
\* mon_mul_fixbase_avx2 up to the inversion: p.x = p.z - p.y, inv(p.x, p.x)
FixReturn ==
  /\ pc = "fix_ret"
  /\ pt' = [pt EXCEPT !.y = mpi29_copy_avx2(acc.y), !.z = mpi29_copy_avx2(acc.z)]
  /\ ireg' = InvEntry(mpi29_gfp_sbc_avx2(pt'.z, pt'.y))
  /\ ipc' = 1
  /\ nsqr' = 0
  /\ nmul' = 0
  /\ cnt' = [cnt EXCEPT !.inv = @ + 1]
  /\ pc' = "kg_inv"
  /\ UNCHANGED <<fvars, cvars, jobs, tab, sk, kp, nib, ei, acc, pk, pkb, reg, sprev, swp, raw, ss, qi, qpos, qreads, qb, qmask, qsel>>

\* a call of the body of the inversion inside keygen or sharedsecret
InvCall ==
  /\ pc \in {"kg_inv", "ss_inv"}
  /\ InvStep
  /\ UNCHANGED <<fvars, cvars, evars>>

\* the rest of mon_mul_fixbase_avx2 and of keygen
KeygenFinish ==
  /\ pc = "kg_inv"
  /\ InvDone
  /\ pt' = [pt EXCEPT !.x = ireg.r]
  /\ pk' = keygen_finish(pt, ireg.r)
  /\ pc' = "kg_done"
  /\ UNCHANGED <<fvars, cvars, ivars, jobs, tab, sk, kp, nib, ei, acc, pkb, reg, sprev, swp, raw, ss, cnt, qi, qpos, qreads, qb, qmask, qsel>>

\* test_ecdh between keygen and sharedsecret: the partners' keys change places
Exchange ==
  /\ pc = "kg_done"
  /\ pkb' = ExchangeKeys(pk)
  /\ pc' = "ss_start"
  /\ UNCHANGED <<fvars, cvars, ivars, jobs, tab, sk, kp, nib, ei, acc, pt, pk, reg, sprev, swp, raw, ss, cnt, qi, qpos, qreads, qb, qmask, qsel>>

\* sharedsecret -> mon_mul_varbase_avx2 up to its loop
LadderStart ==
  /\ pc = "ss_start"
  /\ kp' = prune(sk)
  /\ reg' = LadderEntry(pkb)
  /\ sprev' = VZERO
  /\ swp' = VZERO
  /\ ei' = 254
  /\ cnt' = NoCalls
  /\ pc' = "ss_ladder"
  /\ UNCHANGED <<fvars, cvars, ivars, jobs, tab, sk, nib, acc, pt, pk, pkb, raw, ss, qi, qpos, qreads, qb, qmask, qsel>>

\* the loop counter after an iteration, going down two at a time
LadderSkip(i) == i - 2

\* the loop counter after an iteration: i--
LadderNext(i) == i - 1

\* one iteration of the main ladder loop
LadderLoop ==
  /\ pc = "ss_ladder"
  /\ ei >= 0
  /\ reg' = LadderIter(reg, sprev, LadderBit(kp, ei))
  /\ sprev' = LadderBit(kp, ei)
  /\ swp' = VXOR(swp, CBit(SwapFlag(sprev, LadderBit(kp, ei))))
  /\ ei' = LadderNext(ei)
  /\ cnt' = [cnt EXCEPT !.step = @ + 1, !.cswap = @ + 1]
  /\ UNCHANGED <<fvars, cvars, ivars, pc, jobs, tab, sk, kp, nib, acc, pt, pk, pkb, raw, ss, qi, qpos, qreads, qb, qmask, qsel>>

\* the last cswap and the start of the inversion of p1.z
LadderFinish ==
  /\ pc = "ss_ladder"
  /\ ei < 0
  /\ reg' = mon_cswap_point_avx2(reg, sprev)
  /\ swp' = VXOR(swp, CBit(sprev))
  /\ ireg' = InvEntry(reg'.pz)
  /\ ipc' = 1
  /\ nsqr' = 0
  /\ nmul' = 0
  /\ cnt' = [cnt EXCEPT !.cswap = @ + 1, !.inv = @ + 1]
  /\ pc' = "ss_inv"
  /\ UNCHANGED <<fvars, cvars, jobs, tab, sk, kp, nib, ei, acc, pt, pk, pkb, sprev, raw, ss, qi, qpos, qreads, qb, qmask, qsel>>

\* r = (1 / p1.z) * p1.x and the final reduction of sharedsecret
SharedFinish ==
  /\ pc = "ss_inv"
  /\ InvDone
  /\ reg' = [reg EXCEPT !.qy = ireg.r]
  /\ raw' = mpi29_gfp_mul_avx2(ireg.r, reg.px)
  /\ ss' = final_modp(raw')
  /\ pc' = "done"
  /\ UNCHANGED <<fvars, cvars, ivars, jobs, tab, sk, kp, nib, ei, acc, pt, pk, pkb, sprev, swp, cnt, qi, qpos, qreads, qb, qmask, qsel>>

\* test_ecdh (keygen, exchange, sharedsecret) for the exchanges, and
\* sharedsecret alone on given scalars and peer keys
Init ==
  /\ FieldIdle
  /\ ConvIdle
  /\ InvIdle
  /\ EcdhLocals
  /\ tab = "consecutive"
  /\ \/ \E d \in 0..(NDh - 1) :
          /\ jobs = DhJobs(d)
          /\ sk = JobScalars(DhJobs(d))
          /\ pkb = FZero
          /\ pc = "keygen"
     \/ \E x \in 0..(NX - 1) :
          /\ jobs = XJobs(x)
          /\ sk = JobScalars(XJobs(x))
          /\ pkb = JobElem(XJobs(x), DirectPeer)
          /\ pc = "ss_start"

Next ==
  \/ FixStart
  \/ FixOdd
  \/ FixDbl
  \/ FixEven
  \/ FixReturn
  \/ InvCall
  \/ KeygenFinish
  \/ Exchange
  \/ LadderStart
  \/ LadderLoop
  \/ LadderFinish
  \/ SharedFinish

Spec == Init /\ [][Next]_vars

\* ted_mul_fixbase_avx2 alone, on either layout of the table
InitFix ==
  /\ FieldIdle
  /\ ConvIdle
  /\ InvIdle
  /\ EcdhLocals
  /\ tab \in {"consecutive", "odd"}
  /\ \E d \in 0..(NFix - 1) :
       /\ jobs = DhJobs(d)
       /\ sk = JobScalars(DhJobs(d))
  /\ pkb = FZero
  /\ pc = "keygen"

NextFix ==
  \/ FixStart
  \/ FixOdd
  \/ FixDbl
  \/ FixEven

SpecFix == InitFix /\ [][NextFix]_vars

\* ------------------------------------- the recoding of the scalar, alone
\* number of 4-lane scalars the recoding starts from
NNib == 64

\* 32-bit word w (0..7) of the n-th scalar: 0, 2^256 - 1, the words 0x88888888,
\* 0x77777777, 0x7F7F7F7F and 0xF8F8F8F8, and from then on scattered words
NibScalarWord(n, w) ==
  CASE n = 0 -> <<0, 0, 0>>
    [] n = 1 -> <<MASK29, 7, 0>>
    [] n = 2 -> <<143165576, 4, 0>>
    [] n = 3 -> <<393705335, 3, 0>>
    [] n = 4 -> <<528449407, 3, 0>>
    [] n = 5 -> <<418969848, 7, 0>>
    [] OTHER -> LET x == (n * 1009 + w * 9176 + 1234) % 46337
                IN <<(x * x) % R29, (x + n + 3 * w) % 8, 0>>

\* the k-th 4-lane scalar: lane l holds scalar 4k + l
NibScalars(k) ==
  [w \in 1..8 |-> VSET64(NibScalarWord(4 * k + 3, w - 1), NibScalarWord(4 * k + 2, w - 1),
                         NibScalarWord(4 * k + 1, w - 1), NibScalarWord(4 * k, w - 1))]

InitNib ==
  /\ FieldIdle
  /\ ConvIdle
  /\ InvIdle
  /\ EcdhLocals
  /\ tab = "consecutive"
  /\ jobs = <<>>
  /\ \E k \in 0..(NNib - 1) : sk = NibScalars(k)
  /\ pkb = FZero
  /\ pc = "nibble"

\* ted_mul_fixbase_avx2 up to the recoding: the scalar is pruned and recoded
NibConv ==
  /\ pc = "nibble"
  /\ kp' = prune(sk)
  /\ nib' = ted_conv_scalar2nibble_avx2(kp')
  /\ pc' = "nibble_done"
  /\ UNCHANGED <<fvars, cvars, ivars, jobs, tab, sk, ei, acc, pt, pk, pkb, reg, sprev, swp, raw, ss, cnt, qi, qpos, qreads, qb, qmask, qsel>>

NextNib == NibConv

SpecNib == InitNib /\ [][NextNib]_vars

\* ------------------------------------------------ the serialisation, alone
\* number of arrays of eight 32-bit words the conversions start from
NConv == 32

\* the n-th array of eight 32-bit words
ConvWords(n) == [w \in 1..8 |-> NibScalarWord(n, w - 1)]

InitConv ==
  /\ FieldIdle
  /\ InvIdle
  /\ EcdhIdle
  /\ cub \in {"masked", "zero"}
  /\ \E n \in 0..(NConv - 1) : cw = ConvWords(n)
  /\ c29 = <<>>
  /\ c32 = <<>>

\* mpi29_conv_32to29(r, a, 9, 8)
To29 ==
  /\ c29 = <<>>
  /\ c29' = mpi29_conv_32to29(cw, NWORDS, 8, cub)
  /\ UNCHANGED <<fvars, ivars, evars, cub, cw, c32>>

\* mpi29_conv_29to32(r, a, NWORDS, NWORDS) on the limbs written before
To32 ==
  /\ c29 # <<>>
  /\ c32 = <<>>
  /\ c32' = mpi29_conv_29to32(c29, NWORDS, NWORDS)
  /\ UNCHANGED <<fvars, ivars, evars, cub, cw, c29>>

NextConv ==
  \/ To29
  \/ To32

SpecConv == InitConv /\ [][NextConv]_vars

\* ------------------------------- sharedsecret on the peer u-coordinate 0
\* number of 4-lane scalars sharedsecret is run on with the peer key 0
NLow == 1

InitLow ==
  /\ FieldIdle
  /\ InvIdle
  /\ ConvIdle
  /\ EcdhLocals
  /\ tab = "consecutive"
  /\ jobs = <<>>
  /\ \E k \in 0..(NLow - 1) : sk = NibScalars(k)
  /\ pkb = FZero
  /\ pc = "ss_start"

NextLow ==
  \/ LadderStart
  \/ LadderLoop
  \/ LadderFinish
  \/ InvCall
  \/ SharedFinish

SpecLow == InitLow /\ [][NextLow]_vars

\* ------------------------------------------------- the table query, alone
\* number of 4-lane nibble vectors and of table columns the query is made with
NQuery == 19
NQPos == 3

\* the n-th nibble byte: 0 .. 8, -1 .. -8, and 9 and -9, which the recoding
\* never produces
QueryByte(n) ==
  CASE n % 19 <= 8 -> n % 19
    [] n % 19 \in 9..16 -> 256 - ((n % 19) - 8)
    [] n % 19 = 17 -> 9
    [] OTHER -> 247

\* the k-th 4-lane vector of nibbles
QueryNibbles(k) ==
  VSET64(Word(QueryByte(k + 24)), Word(QueryByte(k + 16)), Word(QueryByte(k + 8)), Word(QueryByte(k)))

\* the n-th column: 0, 31, 30, ...
QueryPos(n) == (31 * n) % 32

InitQuery ==
  /\ FieldIdle
  /\ ConvIdle
  /\ InvIdle
  /\ tab = "consecutive"
  /\ jobs = <<>> /\ sk = <<>> /\ kp = <<>> /\ pkb = FZero
  /\ \E k \in 0..(NQuery - 1) : nib = <<QueryNibbles(k)>>
  /\ \E n \in 0..(NQPos - 1) : qpos = QueryPos(n)
  /\ ei = 0
  /\ acc = ted_point_init_ext_avx2
  /\ pt = [x |-> FZero, y |-> FZero, z |-> FZero]
  /\ pk = FZero
  /\ reg = LadderEntry(FZero)
  /\ sprev = VZERO /\ swp = VZERO /\ raw = FZero /\ ss = FZero
  /\ cnt = NoCalls
  /\ qi = 0 /\ qreads = {}
  /\ qb = VZERO /\ qmask = <<>> /\ qsel = <<>>
  /\ pc = "query"

\* ted_point_query_table_avx2(r, pos, b)
Query ==
  /\ pc = "query"
  /\ pt' = ted_point_query_table_avx2(Base, qpos, nib[1])
  /\ qreads' = QueryReads(qpos)
  /\ qb' = nib[1]
  /\ qmask' = QueryMasks(VABS8(nib[1]))
  /\ qsel' = query_select(qmask', Base[qpos + 1])
  /\ cnt' = [cnt EXCEPT !.query = @ + 1]
  /\ pc' = "query_done"
  /\ UNCHANGED <<fvars, cvars, ivars, jobs, tab, sk, kp, nib, ei, acc, pk, pkb, reg, sprev, swp, raw, ss, qi, qpos>>

NextQuery == Query

SpecQuery == InitQuery /\ [][NextQuery]_vars

\* ---------------------------- additions and doublings of the accumulator
\* number of (column, nibbles) pairs a point is queried with, and the length
\* of a sequence of additions and doublings
NExtQ == 2
MaxExt == 4

InitExt ==
  /\ FieldIdle
  /\ ConvIdle
  /\ InvIdle
  /\ EcdhLocals
  /\ tab = "consecutive"
  /\ jobs = <<>> /\ sk = <<>> /\ pkb = FZero
  /\ pc = "ext"

\* ted_point_query_table_avx2(r, pos, b); ted_point_add_avx2(&h, &h, r)
ExtAdd ==
  /\ pc = "ext"
  /\ cnt.add + cnt.dbl < MaxExt
  /\ \E k \in 0..(NExtQ - 1) :
       /\ pt' = ted_point_query_table_avx2(Base, QueryPos(k), QueryNibbles(k))
       /\ qpos' = QueryPos(k)
       /\ qreads' = QueryReads(QueryPos(k))
       /\ qb' = QueryNibbles(k)
       /\ qmask' = QueryMasks(VABS8(QueryNibbles(k)))
       /\ qsel' = query_select(qmask', Base[QueryPos(k) + 1])
  /\ acc' = ted_point_add_avx2(acc, pt')
  /\ cnt' = [cnt EXCEPT !.query = @ + 1, !.add = @ + 1]
  /\ UNCHANGED <<fvars, cvars, ivars, pc, jobs, tab, sk, kp, nib, ei, pk, pkb, reg, sprev, swp, raw, ss, qi>>

\* ted_point_dbl_avx2(&h, &h)
ExtDbl ==
  /\ pc = "ext"
  /\ cnt.add + cnt.dbl < MaxExt
  /\ acc' = ted_point_dbl_avx2(acc)
  /\ cnt' = [cnt EXCEPT !.dbl = @ + 1]
  /\ UNCHANGED <<fvars, cvars, ivars, pc, jobs, tab, sk, kp, nib, ei, pt, pk, pkb, reg, sprev, swp, raw, ss, qi, qpos, qreads, qb, qmask, qsel>>

NextExt ==
  \/ ExtAdd
  \/ ExtDbl

SpecExt == InitExt /\ [][NextExt]_vars


\* ------------------------------------ doublings of points with reduced limbs
\* number of 4-lane input points Init chooses from, and the number of
\* doublings applied to one
NDblIn == 27
MaxDbl == 3

\* the limbs of x, y and z of the first single-lane input point: all are at
\* most 2^29-1, x^2 and y^2 come out of sqr with high limbs, (x+y)^2 with low
\* ones and 2*z^2 with high ones
DblFirst ==
  <<<<5246803, 283242068, 489836069, 360647234, 503957901, 334357977, 244871894, 139608918, 72205315>>,
    <<52808025, 61141808, 98300064, 468902743, 258229002, 348182781, 268444942, 151622799, 63189316>>,
    <<451248369, 362850636, 130643331, 305160209, 359626932, 262417457, 320464189, 140070656, 28093631>>>>

\* limb i (0..8) of coordinate c (1 = x, 2 = y, 3 = z) of the n-th single-lane
\* input point
DblLimb(c, n, i) == IF n = 0 THEN DblFirst[c][i + 1] ELSE LimbOf(3 * n + c + 4, i)

\* coordinate c of the k-th 4-lane input point: lane l holds input point k + l
DblElem(c, k) ==
  [i \in 1..NWORDS |->
     <<Word(DblLimb(c, k, i - 1)), Word(DblLimb(c, k + 1, i - 1)),
       Word(DblLimb(c, k + 2, i - 1)), Word(DblLimb(c, k + 3, i - 1))>>]

InitDbl ==
  /\ FieldIdle
  /\ ConvIdle
  /\ InvIdle
  /\ tab = "consecutive"
  /\ jobs = <<>> /\ sk = <<>> /\ kp = <<>> /\ pkb = FZero
  /\ nib = <<>> /\ ei = 0
  /\ \E k \in 0..(NDblIn - 1) :
       acc = [x |-> DblElem(1, k), y |-> DblElem(2, k), z |-> DblElem(3, k),
              e |-> FZero, h |-> FOne]
  /\ pt = [x |-> FZero, y |-> FZero, z |-> FZero]
  /\ pk = FZero
  /\ reg = LadderEntry(FZero)
  /\ sprev = VZERO /\ swp = VZERO /\ raw = FZero /\ ss = FZero
  /\ cnt = NoCalls
  /\ qi = 0 /\ qpos = 0 /\ qreads = {}
  /\ qb = VZERO /\ qmask = <<>> /\ qsel = <<>>
  /\ pc = "dbl"

\* ted_point_dbl_avx2(&h, &h)
Dbl ==
  /\ pc = "dbl"
  /\ cnt.dbl < MaxDbl
  /\ acc' = ted_point_dbl_avx2(acc)
  /\ cnt' = [cnt EXCEPT !.dbl = @ + 1]
  /\ UNCHANGED <<fvars, cvars, ivars, pc, jobs, tab, sk, kp, nib, ei, pt, pk, pkb, reg, sprev, swp, raw, ss, qi, qpos, qreads, qb, qmask, qsel>>

NextDbl == Dbl

SpecDbl == InitDbl /\ [][NextDbl]_vars

\* ---------------------------------------------- properties of the field layer
\* every limb of every lane of a is at most 2^29 - 1
Reduced(a) == \A i \in 1..NWORDS : \A l \in Lanes : a[i][l][2] = 0 /\ a[i][l][3] = 0

\* limb i (1..9) of lane l of a is below 2^30
Below30(a, i, l) == a[i][l][2] <= 1 /\ a[i][l][3] = 0

\* limb i (1..9) of lane l of a is at most 2^29 - 1 + n, for n below 2^29
AtMost29Plus(a, i, l, n) ==
  /\ a[i][l][3] = 0
  /\ a[i][l][2] <= 1
  /\ a[i][l][2] = 1 => a[i][l][1] < n

\* 2 p* = 2^262 - 2432
TwoPrimePS == <<R29 - 2 * CONSTC, MASK29, MASK29, MASK29, MASK29, MASK29, MASK29, MASK29, MASK29, 1>>

\* C7: final_modp returns the canonical representative: for an input with all
\* nine limbs <= 2^29-1 the output value is congruent to the input modulo
\* 2^255-19 and lies in [0, 2^255-19).
C7_FinalModpCanonical ==
  (fop = "final_modp" /\ Reduced(fa)) =>
    \A l \in Lanes :
      /\ NatModP(LaneNat(fr, l)) = NatModP(LaneNat(fa, l))
      /\ NatLess(LaneNat(fr, l), PrimeP)

\* C9 as stated: for inputs with all limbs <= 2^29-1 (and a 29-bit constant
\* for mul29), mul, sqr and mul29 return nine limbs that are all <= 2^29-1.
C9_AllLimbsReduced ==
  (/\ fop \in {"mul", "sqr", "mul29"}
   /\ Reduced(fa)
   /\ fop = "mul" => Reduced(fb)) => Reduced(fr)

\* C9 amended: for such inputs limbs 2..8 of the result are <= 2^29-1; limb 1
\* is <= 2^29-1 for mul and sqr and below 2^30 for mul29; limb 0 is below 2^30.
C9_LimbBounds ==
  (/\ fop \in {"mul", "sqr", "mul29"}
   /\ Reduced(fa)
   /\ fop = "mul" => Reduced(fb)) =>
    \A l \in Lanes :
      /\ \A i \in 3..NWORDS : AtMost29Plus(fr, i, l, 0)
      /\ Below30(fr, 1, l)
      /\ IF fop = "mul29" THEN Below30(fr, 2, l) ELSE AtMost29Plus(fr, 2, l, 0)

\* a product of reduced operands whose limb 0 exceeds 2^29-1 in some lane
C9_Witness ==
  /\ fop = "mul"
  /\ Reduced(fa)
  /\ Reduced(fb)
  /\ \E l \in Lanes : fr[1][l][2] = 1

\* C10 as stated: for inputs with all limbs <= 2^29-1, sbc returns a result
\* with every limb <= 2^29-1 and integer value in [0, 2 (2^261 - 1216)).
C10_SbcReduced ==
  (fop = "sbc" /\ Reduced(fa) /\ Reduced(fb)) =>
    /\ Reduced(fr)
    /\ \A l \in Lanes : NatLess(LaneNat(fr, l), TwoPrimePS)

\* C10 amended: for such inputs limbs 1..8 of the result are <= 2^29-1, limb 0
\* is <= 2^29-1 + 2*1216, and the integer value is in [0, 2 (2^261 - 1216)).
C10_SbcBounds ==
  (fop = "sbc" /\ Reduced(fa) /\ Reduced(fb)) =>
    \A l \in Lanes :
      /\ \A i \in 2..NWORDS : AtMost29Plus(fr, i, l, 0)
      /\ AtMost29Plus(fr, 1, l, 2 * CONSTC)
      /\ NatLess(LaneNat(fr, l), TwoPrimePS)

\* a difference of reduced operands whose limb 0 exceeds 2^29-1 in some lane
C10_Witness ==
  /\ fop = "sbc"
  /\ Reduced(fa)
  /\ Reduced(fb)
  /\ \E l \in Lanes : fr[1][l][2] = 1

\* C8: the inversion is a fixed chain of exactly 254 squarings and 11
\* multiplications that raises its input to p-2: when it returns,
\* mul(x, inv(x)) is 1 modulo 2^255-19 in every lane whose input x is not 0
\* modulo p (and a lane with x = 0 modulo p returns 0 modulo p).
C8_InvChain ==
  InvDone =>
    /\ nsqr = 254
    /\ nmul = 11
    /\ \A l \in Lanes :
         IF NatModP(LaneNat(ireg.a, l)) = NatOf(0)
         THEN NatModP(LaneNat(ireg.r, l)) = NatOf(0)
         ELSE NatModP(LaneNat(mpi29_gfp_mul_avx2(ireg.a, ireg.r), l)) = NatOf(1)

\* an inversion has returned for an input with a lane that is not 0 modulo p
\* and is not 1
C8_Witness ==
  /\ InvDone
  /\ \E l \in Lanes :
       /\ NatModP(LaneNat(ireg.a, l)) # NatOf(0)
       /\ NatModP(LaneNat(ireg.a, l)) # NatOf(1)
       /\ NatModP(LaneNat(mpi29_gfp_mul_avx2(ireg.a, ireg.r), l)) = NatOf(1)

\* C11: subtraction round trip: for x, y with all limbs <= 2^29-1 the value of
\* sbc(x, y) plus the value of y is congruent to the value of x modulo
\* p* = 2^261 - 1216.
C11_SbcRoundTrip ==
  (fop = "sbc" /\ Reduced(fa) /\ Reduced(fb)) =>
    \A l \in Lanes :
      NatModPS(NatAdd(LaneNat(fr, l), LaneNat(fb, l))) = NatModPS(LaneNat(fa, l))

\* a difference x - y of reduced operands with x < y in some lane and x > y in
\* another
C11_Witness ==
  /\ fop = "sbc"
  /\ Reduced(fa)
  /\ Reduced(fb)
  /\ \E l \in Lanes : NatLess(LaneNat(fa, l), LaneNat(fb, l))
  /\ \E l \in Lanes : NatLess(LaneNat(fb, l), LaneNat(fa, l))

\* C12: for a, b with all limbs <= 2^29-1 the value of mul(a, b) is congruent
\* to value(a) * value(b) modulo p* = 2^261 - 1216.
C12_MulCongruent ==
  (fop = "mul" /\ Reduced(fa) /\ Reduced(fb)) =>
    \A l \in Lanes :
      NatModPS(LaneNat(fr, l)) = NatModPS(NatMul(LaneNat(fa, l), LaneNat(fb, l)))

\* a product of reduced operands that both have all nine limbs 2^29-1 in some
\* lane (every column sum is at its largest)
C12_Witness ==
  /\ fop = "mul"
  /\ Reduced(fa)
  /\ Reduced(fb)
  /\ \E l \in Lanes : \A i \in 1..NWORDS : fa[i][l][1] = MASK29 /\ fb[i][l][1] = MASK29

\* C13: for x with all limbs <= 2^29-1, sqr(x) and mul(x, x) are congruent
\* modulo p = 2^255 - 19.
C13_SqrIsMul ==
  (fop = "sqr" /\ Reduced(fa)) =>
    \A l \in Lanes :
      NatModP(LaneNat(fr, l)) = NatModP(LaneNat(mpi29_gfp_mul_avx2(fa, fa), l))

\* a square of a reduced operand that is neither 0 nor 1 modulo p in some lane
C13_Witness ==
  /\ fop = "sqr"
  /\ Reduced(fa)
  /\ \E l \in Lanes :
       /\ NatModP(LaneNat(fr, l)) # NatOf(0)
       /\ NatModP(LaneNat(fr, l)) # NatOf(1)
       /\ \A i \in 1..NWORDS : fa[i][l][1] = MASK29

\* C14: cswap per lane: with flag 0 the lane of (r, a) is unchanged, with flag
\* 1 it is exchanged, whatever the other lanes' flags and the limbs are; a
\* second cswap with the same flags restores (r, a).
C14_CswapPerLane ==
  fop = "cswap" =>
    /\ \A l \in Lanes : \A i \in 1..NWORDS :
         /\ fc[l] = Word(0) => (fr[i][l] = fa[i][l] /\ fs[i][l] = fb[i][l])
         /\ fc[l] = Word(1) => (fr[i][l] = fb[i][l] /\ fs[i][l] = fa[i][l])
    /\ mpi29_cswap_avx2(fr, fs, fc) = <<fa, fb>>

\* a cswap whose flag is 1 in lane 0 and 0 in lane 1 or the reverse, on
\* operands that differ in both lanes and have a limb above 2^29-1
C14_Witness ==
  /\ fop = "cswap"
  /\ fc[1] # fc[2]
  /\ \E i \in 1..NWORDS : fa[i][1] # fb[i][1]
  /\ \E i \in 1..NWORDS : fa[i][2] # fb[i][2]
  /\ ~Reduced(fa)

\* C15: recoding round trip: the 64 digits of the clamped scalar, read as
\* signed bytes e_0..e_63, sum with the weights 16^i to the clamped scalar.
C15_NibbleRoundTrip ==
  pc = "nibble_done" =>
    /\ Len(nib) = 64
    /\ \A l \in Lanes : NatEq(NibSum(nib, l), WordsNat(prune(sk), l))

\* a recoded scalar with a negative digit and with a carry into the last digit
C15_Witness ==
  /\ pc = "nibble_done"
  /\ \E l \in Lanes :
       /\ \E i \in 1..63 : SignedByte(nib[i], l) < 0
       /\ nib[64][l] # NibbleOf(kp, 63)[l]

\* C16 as stated: each of the 64 digits, the last one included, is a signed
\* value in -8..7.
C16_AllDigitsSigned4 ==
  pc = "nibble_done" =>
    \A i \in 1..64 : \A l \in Lanes :
      /\ nib[i][l][2] = 0 /\ nib[i][l][3] = 0
      /\ SignedByte(nib[i], l) \in -8..7

\* C16 amended: the digits e_0..e_62 are signed values in -8..7 and the last
\* digit e_63, which receives the final carry, is in -8..8.
C16_DigitRange ==
  pc = "nibble_done" =>
    \A i \in 1..64 : \A l \in Lanes :
      /\ nib[i][l][2] = 0 /\ nib[i][l][3] = 0
      /\ SignedByte(nib[i], l) \in -8..(IF i = 64 THEN 8 ELSE 7)

\* a recoded scalar whose last digit is 8 and that has a digit -8 and a digit 7
C16_Witness ==
  /\ pc = "nibble_done"
  /\ \E l \in Lanes :
       /\ SignedByte(nib[64], l) = 8
       /\ \E i \in 1..63 : SignedByte(nib[i], l) = -8
       /\ \E i \in 1..63 : SignedByte(nib[i], l) = 7

\* C17: serialisation round trip: mpi29_conv_32to29(r, a, 9, 8) gives nine
\* limbs below 2^29 with the integer value of the eight 32-bit words a, and
\* mpi29_conv_29to32 of these limbs gives back the eight words followed by a
\* ninth word 0.
C17_ConvRoundTrip ==
  /\ c29 # <<>> =>
       /\ Len(c29) = NWORDS
       /\ \A i \in 1..NWORDS : c29[i][2] = 0 /\ c29[i][3] = 0
       /\ NatEq(LimbsNat(c29), WordsNat(OneLane(cw), 1))
  /\ c32 # <<>> => c32 = cw \o <<WZERO>>

\* both conversions have run on words that have bits in every limb, the top
\* bit of the last word included
C17_Witness ==
  /\ c32 # <<>>
  /\ c32 = cw \o <<WZERO>>
  /\ \A i \in 1..NWORDS : c29[i][1] # 0
  /\ cw[8][2] >= 4

\* ------------------------------------- properties of the key exchange
\* lane l of a is, modulo p, the number with the canonical limbs L
CongLimbs(a, l, L) == NatModP(LaneNat(a, l)) = L

\* x = c * z modulo p in lane l
Proj(x, z, c, l) == NatModP(LaneNat(x, l)) = NatModP(LaneNat(mpi29_gfp_mul_avx2(z, c), l))

NonZero(a, l) == NatModP(LaneNat(a, l)) # NatOf(0)

\* lane l of a holds exactly the limbs L
SameLimbs(a, l, L) == \A i \in 1..NWORDS : a[i][l] = Word(L[i])

\* the run is a key exchange (keygen, exchange of the keys, sharedsecret)
IsExchange == jobs # <<>> /\ jobs[1] < 6

\* C1: Diffie-Hellman symmetry.  When sharedsecret has returned in a key
\* exchange, the nine 32-bit limbs the test extracts for the partners are
\* the same: lane 0 and lane 1, lane 2 and lane 3.
C1_DhSymmetry ==
  (pc = "done" /\ IsExchange) =>
    \A i \in 1..NWORDS :
      /\ VEXTR32(ss[i], 0) = VEXTR32(ss[i], 2)
      /\ VEXTR32(ss[i], 4) = VEXTR32(ss[i], 6)

\* an exchange has finished whose partners hold different scalars and a
\* shared secret that is not zero
C1_Witness ==
  /\ pc = "done"
  /\ IsExchange
  /\ \E w \in 1..8 : sk[w][1] # sk[w][2]
  /\ \E i \in 1..NWORDS : VEXTR32(ss[i], 0) # WZERO
  /\ \A i \in 1..NWORDS : VEXTR32(ss[i], 0) = VEXTR32(ss[i], 2)

\* C2: when mon_mul_varbase_avx2 has returned, in every lane the scalar used
\* is the clamped one (bits 0, 1, 2 and 255 clear, bit 254 set), 255 ladder
\* steps were made, (p1, p2) represent (k'P, (k'+1)P): p1.x = u(k'P) * p1.z
\* and p2.x = u((k'+1)P) * p2.z with z not 0, and the result r is u(k'P)
\* modulo p, for P the point with u-coordinate x.
C2_LadderResult ==
  pc = "done" =>
    /\ cnt.step = 255
    /\ \A l \in Lanes :
         /\ kp[1][l][1] % 8 = 0
         /\ kp[8][l] \in {<<sk[8][l][1], 2, 0>>, <<sk[8][l][1], 3, 0>>}
         /\ CongLimbs(raw, l, RefU1(jobs[l]))
         /\ Proj(reg.px, reg.pz, JobElem(jobs, RefU1), l)
         /\ Proj(reg.qx, reg.qz, JobElem(jobs, RefU2), l)
         /\ NonZero(reg.pz, l)
         /\ NonZero(reg.qz, l)

\* a ladder has returned for a lane whose scalar is changed by the clamping
\* in bits 0..2 and in bit 255
C2_Witness ==
  /\ pc = "done"
  /\ \E l \in Lanes :
       /\ sk[1][l][1] % 8 # 0
       /\ sk[8][l][2] >= 4
       /\ CongLimbs(raw, l, RefU1(jobs[l]))

\* C3 as stated: with the table holding (2m-1) * 256^j * B in row m-1 of
\* column j, when the loops of ted_mul_fixbase_avx2 are done the accumulator
\* h represents k'B in every lane: h.x = x(k'B) * h.z, h.y = y(k'B) * h.z
\* modulo p with h.z not 0.
AccIsScalarMultiple ==
  \A l \in Lanes :
    /\ Proj(acc.x, acc.z, JobElem(jobs, RefEdX), l)
    /\ Proj(acc.y, acc.z, JobElem(jobs, RefEdY), l)
    /\ NonZero(acc.z, l)

C3_FixBaseOddRows == (pc = "fix_ret" /\ tab = "odd") => AccIsScalarMultiple

\* C3 amended: with the table holding m * 256^j * B in row m-1 of column j
\* (magnitude 0 the neutral element), after the 32 queries and additions of
\* the odd nibbles, the four doublings and the 32 queries and additions of
\* the even nibbles the accumulator h represents k'B in every lane.
C3_FixBaseConsecutiveRows ==
  (pc = "fix_ret" /\ tab = "consecutive") =>
    /\ cnt.query = 64
    /\ cnt.add = 64
    /\ cnt.dbl = 4
    /\ AccIsScalarMultiple

\* the loops are done on the consecutive table for scalars with a negative
\* and a zero nibble
C3_Witness ==
  /\ pc = "fix_ret"
  /\ tab = "consecutive"
  /\ \E n \in 1..64 : nib[n][1] = Word(248)
  /\ \E n \in 1..64 : nib[n][2] = WZERO
  /\ NonZero(acc.x, 1)

\* C4: two lanes with the same scalar and peer keys that differ only in bit
\* 255 (bit 23 of limb 8) return the same shared secret.
OnlyBit255Differs(l, m) ==
  /\ \A w \in 1..8 : sk[w][l] = sk[w][m]
  /\ \A i \in 1..(NWORDS - 1) : pkb[i][l] = pkb[i][m]
  /\ pkb[NWORDS][l] # pkb[NWORDS][m]
  /\ pkb[NWORDS][l][1] % (2 ^ 23) = pkb[NWORDS][m][1] % (2 ^ 23)
  /\ pkb[NWORDS][l][1] \div (2 ^ 24) = 0
  /\ pkb[NWORDS][m][1] \div (2 ^ 24) = 0

C4_Bit255Ignored ==
  pc = "done" =>
    \A l \in Lanes : \A m \in Lanes :
      OnlyBit255Differs(l, m) => \A i \in 1..NWORDS : ss[i][l] = ss[i][m]

\* C5: lane independence.  The public key and the shared secret of a lane
\* are those of the one-lane run of the lane's job, whatever the other lanes
\* hold and whichever lane the job is in.
C5_LaneIndependence ==
  /\ (pc = "kg_done" => \A l \in Lanes : SameLimbs(pk, l, RefPk(jobs[l])))
  /\ (pc = "done" => \A l \in Lanes : SameLimbs(ss, l, RefSS(jobs[l])))

\* sharedsecret has returned in the direct run that has Bob's job (scalar
\* and Alice's public key) in lane 0 next to three other jobs: the result is
\* the one of lane 1 of the exchange
C5_Witness ==
  /\ pc = "done"
  /\ jobs[1] = 6
  /\ SameLimbs(ss, 1, RefSS(1))
  /\ \E i \in 1..NWORDS : ss[i][1] # ss[i][2]

\* C6: the shape of the computation does not depend on the inputs.  When
\* keygen has returned it has made 64 table queries, 64 additions and 4
\* doublings; every query uses column i >> 1 of its loop counter and loads
\* all 8 rows and 4 chunks of that column; when sharedsecret has returned it
\* has made 255 ladder steps, 256 point cswaps and one inversion.
C6_ConstantShape ==
  /\ (pc = "kg_done" => cnt.query = 64 /\ cnt.add = 64 /\ cnt.dbl = 4)
  /\ (cnt.query > 0 =>
        /\ qpos = qi \div 2
        /\ qreads = {<<qpos, j, i>> : j \in 0..7, i \in 0..3})
  /\ (pc = "done" => cnt.step = 255 /\ cnt.cswap = 256 /\ cnt.inv = 1)

\* an exchange has finished: the last query of keygen was for i = 62 and
\* sharedsecret has made its 256 cswaps
C6_Witness ==
  /\ pc = "done"
  /\ IsExchange
  /\ qi = 62
  /\ qpos = 31
  /\ cnt.cswap = 256

\* bit i of the clamped scalar in lane l
ClampedBit(i, l) == And64(Shr64(prune(sk)[(i \div 32) + 1][l], i % 32), Word(1))

\* C19: ladder swap protocol: after the cswap of the iteration for bit i, the
\* parity of the swaps applied to (p1, p2) so far is bit i of the clamped
\* scalar, and after the cswap that follows the loop the parity is 0.
C19_SwapParity ==
  /\ (pc = "ss_ladder" /\ cnt.step >= 1) =>
       \A l \in Lanes : swp[l] = ClampedBit(ei + 1, l)
  /\ pc \in {"ss_inv", "done"} => (swp = VZERO /\ cnt.cswap = 256)

\* in the ladder, after a step whose bit is 1 in lane 0 and 0 in lane 1 and
\* whose previous bit was 1 in both lanes: lane 0 stays swapped, lane 1 is
\* swapped back
C19_Witness ==
  /\ pc = "ss_ladder"
  /\ cnt.step >= 2
  /\ swp[1] = Word(1)
  /\ swp[2] = Word(0)
  /\ ClampedBit(ei + 2, 1) = Word(1)
  /\ ClampedBit(ei + 2, 2) = Word(1)

\* the point the next ladder step doubles: p1 after the cswap of the iteration
LadderPre == mon_cswap_point_avx2(reg, SwapFlag(sprev, LadderBit(kp, ei)))

\* AA = (x + z)^2 and BB = (x - z)^2 modulo p
LadderAA(x, z) == FpMul(FpAdd(x, z), FpAdd(x, z))

LadderBB(x, z) == FpMul(FpSub(x, z), FpSub(x, z))

\* e * (t + ((A - 2) / 4) * e) modulo p
LadderZ2(t, e) == FpMul(e, FpAdd(t, NatScale(e, (CONSTA - 2) \div 4)))

\* (x2 : z2) is the double of (x : z) as the formulas give it:
\* x2 = AA * BB and z2 = E * (t + ((A - 2) / 4) * E) with E = AA - BB, where
\* t is BB if withBB and AA otherwise
DoublesTo(x2, z2, x, z, withBB) ==
  \A aa \in {LadderAA(x, z)} : \A bb \in {LadderBB(x, z)} :
    /\ x2 = FpMul(aa, bb)
    /\ \A e \in {FpSub(aa, bb)} : z2 = LadderZ2(IF withBB THEN bb ELSE aa, e)

\* p1 before and after the ladder step of this iteration agree with the
\* doubling formulas in every lane
StepDoubles(pre, post, withBB) ==
  \A l \in Lanes :
    \A x \in {FpLane(pre.px, l)} : \A z \in {FpLane(pre.pz, l)} :
      DoublesTo(FpLane(post.px, l), FpLane(post.pz, l), x, z, withBB)

\* C20 as stated: every ladder step leaves in p1 the point with
\* X = AA * BB and Z = E * (BB + ((A-2)/4) * E), where AA = (x+z)^2,
\* BB = (x-z)^2, E = AA - BB and A = 486662.
C20_DoublingWithBB ==
  [][LadderLoop => \A pre \in {LadderPre} : \A post \in {reg'} : StepDoubles(pre, post, TRUE)]_vars

\* C20 amended: every ladder step leaves in p1 the point with X = AA * BB and
\* Z = E * (AA + ((A-2)/4) * E).
C20_DoublingWithAA ==
  [][LadderLoop => \A pre \in {LadderPre} : \A post \in {reg'} : StepDoubles(pre, post, FALSE)]_vars

\* a ladder step has doubled a point with E # 0: the result has Z # 0 in
\* some lane
C20_Witness ==
  /\ pc = "ss_ladder"
  /\ cnt.step >= 2
  /\ \E l \in Lanes : FpLane(reg.pz, l) # NatOf(0) /\ FpLane(reg.px, l) # NatOf(0)

\* C18: sharedsecret rejects nothing: with the peer u-coordinate 0 both
\* Z-coordinates of the ladder are 0 modulo p from the first step on, the
\* inversion is handed, for every scalar, a Z-coordinate that is 0 modulo p
\* and returns 0, and sharedsecret returns after its 255 ladder steps and
\* one inversion a value that is 0 modulo p = 2^255 - 19.
C18_ZeroPeerGivesZero ==
  /\ (pc = "ss_ladder" /\ cnt.step >= 1) =>
       \A l \in Lanes : FpLane(reg.pz, l) = NatOf(0) /\ FpLane(reg.qz, l) = NatOf(0)
  /\ (pc = "ss_inv" /\ InvDone) =>
       \A l \in Lanes : FpLane(ireg.a, l) = NatOf(0) /\ FpLane(ireg.r, l) = NatOf(0)
  /\ pc = "done" =>
       /\ cnt.step = 255
       /\ cnt.inv = 1
       /\ \A l \in Lanes : FpLane(ss, l) = NatOf(0)

\* sharedsecret has returned for the peer key 0 and four different scalars
C18_Witness ==
  /\ pc = "done"
  /\ pkb = FZero
  /\ \A l \in Lanes : FpLane(ss, l) = NatOf(0)
  /\ \A l \in 2..4 : \E w \in 1..8 : sk[w][l] # sk[w][1]

\* ------------------------------- operands of the calls inside a call sequence
\* the calls that multiply
MulOps == {"mul", "sqr", "mul29"}

\* the field elements a call reads
ReadsOf(ins) == IF ins[1] \in {"sqr", "copy", "mul29"} THEN {ins[3]} ELSE {ins[3], ins[4]}

\* element r as written before call j of prog is an operand of a multiplying
\* call at or after j, before r is written again
RECURSIVE FeedsMulFrom(_, _, _)
FeedsMulFrom(prog, r, j) ==
  IF j > Len(prog) THEN FALSE
  ELSE IF prog[j][1] \in MulOps /\ r \in ReadsOf(prog[j]) THEN TRUE
  ELSE IF prog[j][2] = r THEN FALSE
  ELSE FeedsMulFrom(prog, r, j + 1)

\* the calls of prog with operation op
CallsOf(prog, op) == {i \in 1..Len(prog) : prog[i][1] = op}

\* every limb of every lane of a is below 2^n (29 <= n <= 57)
LimbsBelow(a, n) ==
  \A i \in 1..NWORDS : \A l \in Lanes : a[i][l][3] = 0 /\ a[i][l][2] < 2 ^ (n - 29)

\* in the run of prog from call st[1] on, on the elements st[2], every operand
\* of a multiplying call has limbs below 2^n
RECURSIVE MulOperandsBelow(_, _, _)
MulOperandsBelow(st, prog, n) ==
  IF st[1] > Len(prog) THEN TRUE
  ELSE /\ prog[st[1]][1] \in MulOps =>
            \A r \in ReadsOf(prog[st[1]]) : LimbsBelow(st[2][r], n)
       /\ MulOperandsBelow(<<st[1] + 1, Exec(st[2], prog[st[1]])>>, prog, n)

\* C21 as stated: in mon_ladder_step_avx2 no result of the non-reducing sub
\* is an operand of mul, sqr or mul29, and every operand of a multiplication
\* in the step has limbs <= 2^29-1.
C21_SubsAreSbc ==
  (pc = "ss_ladder" /\ ei >= 0) =>
    /\ \A i \in CallsOf(LadderProg, "sub") : ~FeedsMulFrom(LadderProg, LadderProg[i][2], i + 1)
    /\ MulOperandsBelow(<<1, LadderPre>>, LadderProg, 29)

\* C21 amended: of the four subtractions of mon_ladder_step_avx2 two (p.x - p.z
\* and tmp2 - q.z) are sbc and two (q.x - q.z and AA - BB) are the
\* non-reducing sub, whose results are operands of mul and mul29; every
\* operand of a multiplication in the step has limbs below 2^31.
C21_SubsFeedMul ==
  (pc = "ss_ladder" /\ ei >= 0) =>
    /\ CallsOf(LadderProg, "sbc") = {2, 16}
    /\ CallsOf(LadderProg, "sub") = {4, 10}
    /\ \A i \in CallsOf(LadderProg, "sub") : FeedsMulFrom(LadderProg, LadderProg[i][2], i + 1)
    /\ MulOperandsBelow(<<1, LadderPre>>, LadderProg, 31)

\* a ladder step is about to multiply by q.x - q.z, which the non-reducing
\* sub leaves with a limb of 2^30 or more
C21_Witness ==
  /\ pc = "ss_ladder"
  /\ ei >= 0
  /\ cnt.step >= 1
  /\ ~LimbsBelow(mpi29_gfp_sub_avx2(LadderPre.qx, LadderPre.qz), 30)


\* ------------------------------------------------ properties of the table query
\* the selection the query has to make for magnitude m in column pos: chunk i
\* of coordinate c of row m - 1, and of (1/2, 1/2, 0) for m = 0
RowChunk(pos, m, c, i) ==
  IF m = 0 THEN (IF c = 3 THEN WZERO ELSE one_half[i]) ELSE Base[pos + 1][m][c][i]

\* lane l of the last query held a byte of magnitude 0..8
InRange(l) == VABS8(qb)[l][1] <= 8 /\ VABS8(qb)[l][2] = 0 /\ VABS8(qb)[l][3] = 0

\* C22: for a nibble byte b with |b| in 0..8 exactly mask[|b|] is all ones in
\* that lane and the other eight masks are zero there, and the selected chunks
\* are those of table[pos][|b|-1] for |b| >= 1 and of (1/2, 1/2, 0) for b = 0,
\* in each lane by that lane's byte.
C22_TableSelection ==
  pc = "query_done" =>
    \A l \in Lanes :
      InRange(l) =>
        /\ \A j \in 0..8 :
             qmask[j + 1][l] = IF VABS8(qb)[l] = Word(j) THEN WONES ELSE WZERO
        /\ \A c \in 1..3 : \A i \in 1..4 :
             qsel[c][i][l] = RowChunk(qpos, VABS8(qb)[l][1], c, i)

\* a query of the last column whose lanes hold the bytes 0, 8, -8 and 5
C22_Witness ==
  /\ pc = "query_done"
  /\ qpos = 31
  /\ qb = <<Word(0), Word(8), Word(248), Word(5)>>
  /\ qsel[3][1][1] = WZERO
  /\ qsel[1][1][2] = Base[32][8][1][1]
  /\ qsel[1][1][3] = Base[32][8][1][1]

\* the selected chunks of the last query as field elements
Selected ==
  [x |-> lut_conv_coor2mpi29_avx2(qsel[1]), y |-> lut_conv_coor2mpi29_avx2(qsel[2]),
   z |-> lut_conv_coor2mpi29_avx2(qsel[3])]

\* the point the query returns in column qpos for the magnitudes of the
\* bytes of the last query
QueryOfAbs == ted_point_query_table_avx2(Base, qpos, VABS8(qb))

\* lane l of the field elements a and b is the same
SameLane(a, b, l) == \A i \in 1..NWORDS : a[i][l] = b[i][l]

\* lane l of a + b is 0 modulo p* = 2^261 - 1216
NegLane(a, b, l) ==
  \A s \in {NatModPS(NatAdd(LaneNat(a, l), LaneNat(b, l)))} : \A i \in 1..NWORDS : s[i] = 0

\* bit 7 of the byte in lane l of the last query is set
Negative(l) == qb[l][1] >= 128

\* C23: for |b| the query returns x, y and z as selected; for a negative
\* nibble (bit 7 of the byte set) it returns the point of |b| with x and y
\* exchanged and z replaced by 0 - z modulo p*; for a non-negative nibble x, y
\* and z are the selected ones.
C23_SignHandling ==
  pc = "query_done" =>
    \A abs \in {QueryOfAbs} : \A sel \in {Selected} :
      \A l \in Lanes :
        InRange(l) =>
          /\ SameLane(abs.x, sel.x, l) /\ SameLane(abs.y, sel.y, l) /\ SameLane(abs.z, sel.z, l)
          /\ IF Negative(l)
             THEN /\ SameLane(pt.x, abs.y, l)
                  /\ SameLane(pt.y, abs.x, l)
                  /\ NegLane(pt.z, abs.z, l)
             ELSE /\ SameLane(pt.x, sel.x, l)
                  /\ SameLane(pt.y, sel.y, l)
                  /\ SameLane(pt.z, sel.z, l)

\* a query with the byte -8 in a lane and 8 in another: the two lanes hold
\* the same row with x and y exchanged and different z
C23_Witness ==
  /\ pc = "query_done"
  /\ qb[2] = Word(8)
  /\ qb[3] = Word(248)
  /\ \A i \in 1..NWORDS : pt.x[i][3] = pt.y[i][2] /\ pt.y[i][3] = pt.x[i][2]
  /\ \E i \in 1..NWORDS : pt.x[i][3] # pt.x[i][2]
  /\ \E i \in 1..NWORDS : pt.z[i][3] # pt.z[i][2]

\* ------------------------------------------ properties of the extended point
\* e * h * z = x * y modulo p in lane l of the extended point p
ExtInvariant(p, l) ==
  \A x \in {FpLane(p.x, l)} : \A y \in {FpLane(p.y, l)} : \A z \in {FpLane(p.z, l)} :
    \A e \in {FpLane(p.e, l)} : \A h \in {FpLane(p.h, l)} :
      FpMul(FpMul(e, h), z) = FpMul(x, y)

\* C24: starting from the neutral element (0, 1, 1, 0, 1), after every
\* sequence of ted_point_add_avx2 and ted_point_dbl_avx2 the accumulator has
\* e * h * z = x * y modulo p.
C24_ExtendedInvariant ==
  pc = "ext" => \A l \in Lanes : ExtInvariant(acc, l)

\* the accumulator after additions and a doubling, with x * y # 0 in a lane
C24_Witness ==
  /\ pc = "ext"
  /\ cnt.add >= 2
  /\ cnt.dbl >= 1
  /\ \E l \in Lanes : FpMul(FpLane(acc.x, l), FpLane(acc.y, l)) # NatOf(0)

\* ------------------------------------------- headroom of the field operations
\* 2^255
Two255 == <<0, 0, 0, 0, 0, 0, 0, 0, 2 ^ 23>>

\* lane l of a has limbs 1..8 at most 2^29-1 and limb 0 below 2^30
ReducedButLimb0(a, l) ==
  /\ Below30(a, 1, l)
  /\ \A i \in 2..NWORDS : AtMost29Plus(a, i, l, 0)

\* C25: for every input with all nine limbs <= 2^29-1, limb 0 possibly with
\* the excess mul leaves, final_modp returns limbs 0..7 <= 2^29-1 and limb 8
\* <= 2^23-1, a value below 2^255.
C25_TwoFoldsSuffice ==
  fop = "final_modp" =>
    \A l \in Lanes :
      ReducedButLimb0(fa, l) =>
        /\ \A i \in 1..(NWORDS - 1) : AtMost29Plus(fr, i, l, 0)
        /\ fr[NWORDS][l][1] <= 2 ^ 23 - 1 /\ fr[NWORDS][l][2] = 0 /\ fr[NWORDS][l][3] = 0
        /\ NatLess(LaneNat(fr, l), Two255)

\* final_modp on an input with limbs <= 2^29-1 whose first fold leaves bit 23
\* of limb 8 set in a lane, and on a product with excess in limb 0
C25_Witness ==
  /\ fop = "final_modp"
  /\ \A l \in Lanes : ReducedButLimb0(fa, l)
  /\ \E l \in Lanes : final_modp_pass(fa)[NWORDS][l] = Word(2 ^ 23)
  /\ \E l \in Lanes : fa[1][l][2] = 1

\* limb i (1..9) of 2 p*
BiasLimb(i) == IF i = 1 THEN 2 * LSWP29 ELSE 2 * MASK29

\* limb i of lane l of r is the integer 2p*_i + a_i - b_i, which is in 0..top
SubLimb(r, a, b, i, l, top) ==
  \A v \in {BiasLimb(i) + a[i][l][1] - b[i][l][1]} :
    /\ v >= 0
    /\ v <= top
    /\ r[i][l] = <<v % R29, v \div R29, 0>>

DblPre(p) == [x |-> p.x, y |-> p.y, z |-> p.z, e |-> p.e, h |-> p.h, t |-> FZero]

\* the sum of the products a[i] * b[k-i] of column k (0..16) in lane l, as a
\* natural number; st = <<i, sum of the products below i>>
RECURSIVE ColumnSumRec(_, _, _, _, _)
ColumnSumRec(a, b, k, l, st) ==
  IF st[1] > 8 \/ st[1] > k THEN st[2]
  ELSE ColumnSumRec(a, b, k, l,
         <<st[1] + 1, NatCut(NatAdd(st[2], NatMul(a[st[1] + 1][l], b[k - st[1] + 1][l])), 4)>>)

ColumnSum(a, b, k, l) == ColumnSumRec(a, b, k, l, <<IF k > 8 THEN k - 8 ELSE 0, <<>> >>)

\* the natural number x is below 2^64
Fits64(x) == Digit(x, 4) = 0 /\ Digit(x, 3) < 2 ^ 6

\* no column of the product of a and b reaches 2^64 in any lane
ColumnsFit(a, b) ==
  \A k \in 0..(2 * NWORDS - 2) : \A l \in Lanes : Fits64(ColumnSum(a, b, k, l))

\* in the run of prog from call st[1] on, on the elements st[2], the columns of
\* every mul and sqr stay below 2^64
RECURSIVE MulColumnsFit(_, _)
MulColumnsFit(st, prog) ==
  IF st[1] > Len(prog) THEN TRUE
  ELSE /\ prog[st[1]][1] \in {"mul", "sqr"} =>
            ColumnsFit(st[2][prog[st[1]][3]], st[2][prog[st[1]][4]])
       /\ \A nx \in {Exec(st[2], prog[st[1]])} : MulColumnsFit(<<st[1] + 1, nx>>, prog)

\* the coordinates x, y, z of p have limbs <= 2^29-1 in every lane
ReducedPoint(p) == LimbsBelow(p.x, 29) /\ LimbsBelow(p.y, 29) /\ LimbsBelow(p.z, 29)

\* the product of the calls `sub e, h, e`, `add y, t, y` of the doubling in lane l is e * y modulo p
DblProductExact(p, l) ==
  \A s \in {Run(DblPre(p), SubSeq(TedDblProg, 1, 10))} :
    FpLane(mpi29_gfp_mul_avx2(s.e, s.y), l) = FpMul(LaneNat(s.e, l), LaneNat(s.y, l))

\* C27: for every input point with limbs <= 2^29-1, in ted_point_dbl_avx2
\* every operand of mul, sqr and mul29 has limbs below 2^32 and every column
\* accumulator stays below 2^64, so that the products are exact: x of the
\* doubling is e * y modulo p.
C27_Headroom ==
  (pc = "dbl" /\ ReducedPoint(acc)) =>
    /\ MulOperandsBelow(<<1, DblPre(acc)>>, TedDblProg, 32)
    /\ MulColumnsFit(<<1, DblPre(acc)>>, TedDblProg)
    /\ \A l \in Lanes : DblProductExact(acc, l)

\* ------------------------------------------------------------------ C28
\* the shifts mpi29_conv_32to29 executes from the loop state st on:
\* <<"shr", shr_pos>> for temp >> shr_pos and <<"shl", shl_pos>> for
\* a[j] << shl_pos, those of the statement after the loop included
RECURSIVE Conv32ShiftsRec(_, _, _, _)
Conv32ShiftsRec(a, rlen, alen, st) ==
  IF st[1] < rlen /\ st[2] < alen
  THEN {<<"shr", st[3]>>, <<"shl", st[4]>>}
       \cup Conv32ShiftsRec(a, rlen, alen, Conv32Next(a, st, st[3] - 3, st[4] + 3, WZERO))
  ELSE IF st[1] < rlen THEN {<<"shr", st[3]>>} ELSE {}

Conv32Shifts(a, rlen, alen) == Conv32ShiftsRec(a, rlen, alen, <<0, 0, 32, 0, WZERO, <<>> >>)

\* C28: in mpi29_conv_32to29 every shift of a 32-bit word, temp >> shr_pos
\* and a[j] << shl_pos, has an amount in 0..31.
C28_ShiftsBelow32 ==
  c29 # <<>> => \A s \in Conv32Shifts(cw, NWORDS, 8) : s[2] \in 0..31

\* ------------------------------------------------------------------ C29
\* the coordinates of the input point and of the output point in the programs
\* with distinct r and p
InCoord == {"px", "py", "pz", "pe", "ph"}
OutOf(c) == CASE c = "px" -> "rx" [] c = "py" -> "ry" [] c = "pz" -> "rz" [] c = "pe" -> "re" [] c = "ph" -> "rh"

\* the name an element has when r and p are the same point
Aliased(n) ==
  CASE n \in {"px", "rx"} -> "x" [] n \in {"py", "ry"} -> "y" [] n \in {"pz", "rz"} -> "z"
    [] n \in {"pe", "re"} -> "e" [] n \in {"ph", "rh"} -> "h" [] OTHER -> n

AliasedProg(prog) ==
  [i \in 1..Len(prog) |->
     <<prog[i][1], Aliased(prog[i][2]), Aliased(prog[i][3]),
       IF prog[i][1] = "mul29" THEN prog[i][4] ELSE Aliased(prog[i][4])>>]

\* no call of prog reads a coordinate of p after a call wrote that coordinate of r
NoEarlyOverwrite(prog) ==
  \A i \in 1..Len(prog) : \A c \in ReadsOf(prog[i]) \cap InCoord :
    \A j \in 1..(i - 1) : prog[j][2] # OutOf(c)

\* every read of the access order s comes before every write
ReadsBeforeWrites(s) ==
  \A i \in 1..Len(s) : \A j \in 1..Len(s) : (s[i][1] = "read" /\ s[j][1] = "write") => i < j

\* the output point of a program with distinct r and p
ExtOfR(regs) == [x |-> regs.rx, y |-> regs.ry, z |-> regs.rz, e |-> regs.re, h |-> regs.rh]

\* the elements of a call with distinct r and p: r holds arbitrary limbs
DistinctPre(p, q) ==
  [px |-> p.x, py |-> p.y, pz |-> p.z, pe |-> p.e, ph |-> p.h, t |-> FZero,
   rx |-> FOne, ry |-> FZero, rz |-> FZero, re |-> FOne, rh |-> FZero,
   qx |-> q.x, qy |-> q.y, qz |-> q.z]

\* the point the next addition of the harness adds for the choice k
ExtQuery(k) == ted_point_query_table_avx2(Base, QueryPos(k), QueryNibbles(k))

\* C29: ted_point_add_avx2(&h, &h, q) and ted_point_dbl_avx2(&h, &h) give the
\* same (x, y, z, e, h) as the calls with a distinct output point; no
\* coordinate of the input is overwritten before its last read, and each
\* field operation reads all its input limbs before it writes an output limb.
C29_InPlaceSafe ==
  pc = "ext" =>
    /\ AliasedProg(TedAddProgDistinct) = TedAddProg
    /\ AliasedProg(TedDblProgDistinct) = TedDblProg
    /\ ted_point_dbl_avx2(acc) = ExtOfR(Run(DistinctPre(acc, pt), TedDblProgDistinct))
    /\ \A k \in 0..(NExtQ - 1) : \A q \in {ExtQuery(k)} :
         ted_point_add_avx2(acc, q) = ExtOfR(Run(DistinctPre(acc, q), TedAddProgDistinct))
    /\ NoEarlyOverwrite(TedAddProgDistinct)
    /\ NoEarlyOverwrite(TedDblProgDistinct)
    /\ \A op \in {"add", "sub", "sbc", "mul", "sqr", "mul29"} : ReadsBeforeWrites(FieldAccess(op))

\* the accumulator after additions and doublings, all five coordinates
\* different from those of the neutral element in a lane: the next in-place
\* call overwrites every coordinate it reads
C29_Witness ==
  /\ pc = "ext"
  /\ cnt.add >= 1
  /\ cnt.dbl >= 1
  /\ \E l \in Lanes : \A c \in {"x", "y", "z", "e", "h"} :
       FpLane(acc[c], l) \notin {NatOf(0), NatOf(1)}
  /\ ted_point_dbl_avx2(acc) # acc

\* ------------------------------------------------------------------ C30
\* lane l of the point q is the unselected point: x, y and z have all limbs 0
Unselected(q, l) ==
  \A i \in 1..NWORDS : q.x[i][l] = WZERO /\ q.y[i][l] = WZERO /\ q.z[i][l] = WZERO

\* the query ted_mul_fixbase_avx2 makes with digit e[i]: column i >> 1
FixQuery(i) == ted_point_query_table_avx2(Base, i \div 2, nib[i + 1])

\* the digits whose query is carried out in full: the first and the last of
\* either loop of ted_mul_fixbase_avx2
FixQuerySample == {0, 1, 62, 63}

\* C30: every digit ted_mul_fixbase_avx2 hands to the query has magnitude
\* 0..8, so exactly one mask is set in each lane and the query does not return the
\* unselected point (0, 0, 0); the top digit e_63 is in 4..8 and its sign
\* bit is clear.
C30_DigitsSelect ==
  pc = "nibble_done" =>
    /\ \A i \in 0..63 : \A babs \in {VABS8(nib[i + 1])} : \A masks \in {QueryMasks(babs)} :
         \A l \in Lanes :
           /\ babs[l][1] <= 8 /\ babs[l][2] = 0 /\ babs[l][3] = 0
           /\ \A j \in 0..8 : masks[j + 1][l] = IF babs[l][1] = j THEN WONES ELSE WZERO
    /\ \A i \in FixQuerySample : \A q \in {FixQuery(i)} : \A l \in Lanes : ~Unselected(q, l)
    /\ \A l \in Lanes : nib[64][l][1] \in 4..8 /\ BSign(nib[64])[l] = WZERO

\* a recoded scalar with the top digit 8 in a lane and 4 in another, and
\* digits of magnitude 8 and 0 among the others
C30_Witness ==
  /\ pc = "nibble_done"
  /\ \E l \in Lanes : nib[64][l][1] = 8
  /\ \E l \in Lanes : nib[64][l][1] = 4
  /\ \E l \in Lanes : \E i \in 1..63 : VABS8(nib[i])[l][1] = 8 /\ nib[i][l][1] >= 128
  /\ \E l \in Lanes : \E i \in 1..63 : nib[i][l][1] = 0
  /\ \A l \in Lanes : ~Unselected(FixQuery(63), l)
=============================================================================
